---- MODULE Spec2Model ----
(***************************************************************************)
(* rspin: the pointer-driven manipulation state machine of the overlay     *)
(* viewer (src/src/wayland.rs) and the redraw pipeline it drives.          *)
(*                                                                         *)
(* Conventions of the model                                                *)
(*  - `app` is the WaylandApp value owned by run(); its fields carry the   *)
(*    names of the struct's fields.                                        *)
(*  - Option<T> is a sequence of length 0 (None) or 1 (Some).              *)
(*  - An Instant is represented by its age: the whole milliseconds that    *)
(*    have elapsed since it was taken.  Tick ages every stored Instant.    *)
(*  - An f32 opacity is an integer count of 2^-28; every f32 in            *)
(*    [2^-5, 2) is such a count, and RoundF32 rounds as the hardware does. *)
(*  - Pixel positions are whole pixels.  Products and quotients of pixel   *)
(*    sizes that the code evaluates in f32 are evaluated exactly and then  *)
(*    truncated as the `as u32` cast truncates.                            *)
(***************************************************************************)
EXTENDS Integers, Sequences, FiniteSets, TLC

VARIABLES
    app,      \* the WaylandApp state
    pc,       \* position of run(): "running", "exited", "panicked", "failed"
    ev,       \* history: the event handled last, with what it did
    frame,    \* history: the frame submitted last to the display surface, and its age
    gestures, \* history: number of gestures started so far (bounds the run)
    clipboard \* the file /tmp/rspin_clipboard.png, the answers of the file system
              \* and of the clipboard utilities, and what the last event's Copy did

vars == <<app, pc, ev, frame, gestures, clipboard>>

---------------------------------------------------------------------------
(* Program constants                                                       *)

BTN_LEFT == 272
BTN_RIGHT == 273
DOUBLE_CLICK_THRESHOLD_MS == 300
DOUBLE_CLICK_DISTANCE == 10
RESIZE_MARGIN == 10
MIN_SIZE == 50
MAX_SIZE == 4096
MAX_BUFFER_SIZE == 67108864
MIN_FRAME_INTERVAL_MS == 25
MENU_ITEM_CLOSE == 0
MENU_ITEM_COPY == 1
MENU_ITEM_OPACITY_UP == 2
MENU_ITEM_OPACITY_DOWN == 3
MENU_ITEM_SCALE_MODE == 4
MENU_ITEM_HEIGHT == 25
MENU_WIDTH == 180
MENU_ITEM_COUNT == 5

\* f32 values as counts of 2^-28
OPACITY_STEP == 13421773
OPACITY_MIN == 26843546
OPACITY_MAX == 268435456
F32_EPSILON == 32
F32_HALF == OPACITY_MAX \div 2

None == <<>>
Some(x) == <<x>>
IsSome(o) == Len(o) = 1
Unwrap(o) == o[1]

---------------------------------------------------------------------------
(* Bounds of the model                                                     *)

\* gestures (presses that start a drag or a resize) explored per run
MaxGestures == 2
\* resize gestures explored per run of SpecResize
MaxResizeGestures == 1
\* gestures explored per run of SpecClick
MaxClickGestures == 2
\* gestures explored per run of SpecMenu
MaxMenuGestures == 1
\* gestures explored per run of SpecExit and of SpecCache
MaxExitGestures == 1
MaxCacheGestures == 1
\* gestures explored per run of SpecConfigure
MaxConfigureGestures == 2

\* gestures explored per run of SpecSnapshot
MaxSnapshotGestures == 2
\* gestures explored per run of SpecEdge
MaxEdgeGestures == 1

\* a stored click Instant older than the threshold can no longer make a
\* double-click, and a stored draw Instant as old as the frame interval no
\* longer throttles: ages saturate there
ClickAgeCap == DOUBLE_CLICK_THRESHOLD_MS + 1
DrawAgeCap == MIN_FRAME_INTERVAL_MS
\* the ages at which the model looks at the clock
TimePoints == {0, MIN_FRAME_INTERVAL_MS - 1, MIN_FRAME_INTERVAL_MS,
               DOUBLE_CLICK_THRESHOLD_MS - 1, DOUBLE_CLICK_THRESHOLD_MS,
               DOUBLE_CLICK_THRESHOLD_MS + 1}

---------------------------------------------------------------------------
(* Arithmetic helpers                                                      *)

Min(a, b) == IF a <= b THEN a ELSE b
Max(a, b) == IF a >= b THEN a ELSE b
Abs(a) == IF a < 0 THEN -a ELSE a

\* a clamp that forgets its lower limit
ClampNoFloor(x, lo, hi) == IF x > hi THEN hi ELSE x

\* Ord::clamp / f32::clamp
Clamp(x, lo, hi) == IF x < lo THEN lo ELSE IF x > hi THEN hi ELSE x

\* `(n as f32 / d as f32) as u32` and `(a as f32 * n/d) as u32`: the float is
\* truncated toward zero and a negative value saturates to 0
TruncQuot(n, d) == IF n <= 0 THEN 0 ELSE n \div d

\* `a / 2` on i32 truncates toward zero
HalfI32(a) == IF a >= 0 THEN a \div 2 ELSE -((-a) \div 2)

\* the unit in the last place of the f32 binade that holds n (a count of 2^-28)
UlpF32(n) ==
    IF n < 16777216 THEN 1
    ELSE IF n < 33554432 THEN 2
    ELSE IF n < 67108864 THEN 4
    ELSE IF n < 134217728 THEN 8
    ELSE IF n < 268435456 THEN 16
    ELSE 32

\* round-to-nearest-even of an exact sum or difference to an f32
RoundF32Pos(n) ==
    LET u == UlpF32(n)
        q == n \div u
        r == n % u
    IN  IF 2 * r < u THEN q * u
        ELSE IF 2 * r > u THEN (q + 1) * u
        ELSE IF q % 2 = 0 THEN q * u ELSE (q + 1) * u

RoundF32(n) == IF n >= 0 THEN RoundF32Pos(n) ELSE -RoundF32Pos(-n)

---------------------------------------------------------------------------
(* Construction: run() up to the event loop                                *)

\* A non-negative f32 is <<m, e>>, the value m * 2^e: m = 0, or m is the
\* 24-bit significand, F32_HIDDEN <= m < 2 * F32_HIDDEN. Every value met here
\* is far from the subnormal and the overflow range.
F32_HIDDEN == 8388608
F32_LIMB == 4096

\* an integer count n of 2^e that an f32 holds exactly, normalised
RECURSIVE F32Of(_, _)
F32Of(n, e) ==
    IF n = 0 THEN <<0, 0>>
    ELSE IF n < F32_HIDDEN THEN F32Of(2 * n, e - 1)
    ELSE IF n >= 2 * F32_HIDDEN THEN F32Of(n \div 2, e + 1)
    ELSE <<n, e>>

\* `a as f32 / 255.0` for a u8: the quotient rounded to nearest (no quotient
\* by 255 is a tie). The dividend a * 2^k is divided in two limbs.
F32Div255(a) ==
    IF a = 0 THEN <<0, 0>>
    ELSE LET Quot(k) ==
                 LET x == a * 2^(k - 12)
                     r1 == x % 255
                 IN  <<(x \div 255) * F32_LIMB + (r1 * F32_LIMB) \div 255,
                       (r1 * F32_LIMB) % 255>>
             k == CHOOSE j \in 23 .. 31 :
                      Quot(j)[1] >= F32_HIDDEN /\ Quot(j)[1] < 2 * F32_HIDDEN
             q == Quot(k)
         IN  F32Of(IF 2 * q[2] > 255 THEN q[1] + 1 ELSE q[1], -k)

\* `x * y` on f32: the 48-bit product of the significands, computed in 12-bit
\* limbs, rounded to nearest, ties to even
F32Mul(x, y) ==
    IF x[1] = 0 \/ y[1] = 0 THEN <<0, 0>>
    ELSE LET a1 == x[1] \div F32_LIMB
             a0 == x[1] % F32_LIMB
             b1 == y[1] \div F32_LIMB
             b0 == y[1] % F32_LIMB
             mid == a1 * b0 + a0 * b1
             low_sum == (mid % F32_LIMB) * F32_LIMB + a0 * b0
             \* the product is high * 2^24 + low
             high == a1 * b1 + mid \div F32_LIMB + low_sum \div (2 * F32_HIDDEN)
             low == low_sum % (2 * F32_HIDDEN)
             wide == high >= F32_HIDDEN
             m == IF wide THEN high ELSE 2 * high + low \div F32_HIDDEN
             rest == IF wide THEN low ELSE low % F32_HIDDEN
             half == IF wide THEN F32_HIDDEN ELSE F32_HIDDEN \div 2
             up == rest > half \/ (rest = half /\ m % 2 = 1)
         IN  F32Of(IF up THEN m + 1 ELSE m, x[2] + y[2] + (IF wide THEN 24 ELSE 23))

\* `x as u8`: truncation toward zero, saturating at 255
F32AsU8(x) ==
    IF x[1] = 0 \/ x[2] < -24 THEN 0
    ELSE IF x[2] > -16 THEN 255
    ELSE x[1] \div 2^(-x[2])

\* `x.round() as u8`: to the nearest integer, halves away from zero
F32RoundAsU8(x) ==
    IF x[1] = 0 \/ x[2] < -24 THEN 0
    ELSE IF x[2] > -16 THEN 255
    ELSE Min((x[1] + 2^(-x[2] - 1)) \div 2^(-x[2]), 255)

\* `src_alpha * opacity * 255.0` with src_alpha = alpha as f32 / 255.0 and the
\* opacity a count of 2^-28
ScaledAlpha(alpha, opacity) ==
    F32Mul(F32Mul(F32Div255(alpha), F32Of(opacity, -28)), F32Of(255, 0))

\* one pixel <<r, g, b, a>> of render_image_static after interpolation
render_pixel_static(p, opacity) ==
    <<p[1], p[2], p[3], F32AsU8(ScaledAlpha(p[4], opacity))>>

\* one pixel of apply_opacity_to_canvas, from the pixel held in the cache
apply_opacity_to_canvas(src, opacity) ==
    <<src[1], src[2], src[3], F32AsU8(ScaledAlpha(src[4], opacity))>>

\* `x as u32` for an f32 below 2^24: truncation toward zero
F32AsU32(x) ==
    IF x[1] = 0 \/ x[2] < -24 THEN 0
    ELSE IF x[2] >= 0 THEN x[1] * 2^x[2]
    ELSE x[1] \div 2^(-x[2])

\* one pixel <<r, g, b, a>> of render_image_fast: the alpha is scaled in
\* integers by opacity_i = (opacity * 255.0) as u32 and shifted right by 8
render_pixel_fast(p, opacity) ==
    LET opacity_i == F32AsU32(F32Mul(F32Of(opacity, -28), F32Of(255, 0)))
    IN  <<p[1], p[2], p[3], ((p[4] * opacity_i) \div 256) % 256>>

\* the pyramid loop of generate_mipmaps with no limit on the number of levels
RECURSIVE MipLoopUncapped(_, _, _)
MipLoopUncapped(current_width, current_height, mipmaps) ==
    IF current_width > 64 /\ current_height > 64
    THEN LET next_width == current_width \div 2
             next_height == current_height \div 2
         IN  IF next_width < 32 \/ next_height < 32
             THEN mipmaps
             ELSE MipLoopUncapped(next_width, next_height,
                                  Append(mipmaps, <<next_width, next_height>>))
    ELSE mipmaps

\* the `while` loop of generate_mipmaps; a level is its <<width, height>>
RECURSIVE MipLoop(_, _, _)
MipLoop(current_width, current_height, mipmaps) ==
    IF current_width > 64 /\ current_height > 64 /\ Len(mipmaps) < 8
    THEN LET next_width == current_width \div 2
             next_height == current_height \div 2
         IN  IF next_width < 32 \/ next_height < 32
             THEN mipmaps
             ELSE MipLoop(next_width, next_height,
                          Append(mipmaps, <<next_width, next_height>>))
    ELSE mipmaps

\* a pyramid that goes on halving after its eighth level
generate_mipmaps_uncapped(width, height) == MipLoopUncapped(width, height, <<>>)

generate_mipmaps(width, height) == MipLoop(width, height, <<>>)

\* `(screen as f32 * 0.10f32.sqrt()) as u32`
ScreenShare(screen) ==
    CHOOSE m \in 0..screen : 10 * m * m <= screen * screen
                             /\ screen * screen < 10 * (m + 1) * (m + 1)

\* a / b < c / d for positive denominators
FracLess(a, b, c, d) == a * d < c * b

calculate_limited_size(img_width, img_height, screen_width, screen_height) ==
    LET max_width == ScreenShare(screen_width)
        max_height == ScreenShare(screen_height)
    IN  IF img_width <= max_width /\ img_height <= max_height
        THEN <<img_width, img_height>>
        ELSE LET by_x == FracLess(max_width, img_width, max_height, img_height)
                 n == IF by_x THEN max_width ELSE max_height
                 d == IF by_x THEN img_width ELSE img_height
             IN  <<Max(TruncQuot(img_width * n, d), 1),
                   Max(TruncQuot(img_height * n, d), 1)>>

\* WaylandApp::new followed by the assignments of run()
NewApp(image, display, opacity, use_gpu) ==
    LET target == calculate_limited_size(image[1], image[2], display[1], display[2])
    IN  [ image |-> image,
          mipmaps |-> generate_mipmaps(image[1], image[2]),
          opacity |-> opacity,
          should_exit |-> FALSE,
          display_width |-> display[1],
          display_height |-> display[2],
          pool |-> FALSE,
          width |-> target[1],
          height |-> target[2],
          configured |-> FALSE,
          margin_left |-> (display[1] - target[1]) \div 2,
          margin_top |-> (display[2] - target[2]) \div 2,
          pointer_pos |-> <<0, 0>>,
          dragging |-> FALSE,
          drag_start_pos |-> <<0, 0>>,
          drag_start_margin |-> <<0, 0>>,
          resizing |-> FALSE,
          resize_edge |-> "None",
          resize_start_pos |-> <<0, 0>>,
          resize_start_size |-> <<0, 0>>,
          resize_start_margin |-> <<0, 0>>,
          last_click_time |-> None,
          last_click_pos |-> <<0, 0>>,
          menu_state |-> "Hidden",
          menu_pos |-> <<0, 0>>,
          menu_hover_item |-> None,
          needs_redraw |-> FALSE,
          scale_mode |-> "KeepAspectRatio",
          cached_scaled_image |-> None,
          cached_scaled_size |-> <<0, 0>>,
          last_resize_draw |-> None,
          use_gpu |-> use_gpu,
          gpu_renderer |-> FALSE,
          gpu_initialized |-> FALSE ]

NoFrame == [path |-> "none", width |-> 0, height |-> 0, opacity |-> 0, age |-> 0]

\* what an event handler leaves in the history variable `ev`: the event, the
\* redraw path its draw() call took ("none": no frame was rendered), and the
\* gesture and menu state it found
Event(kind, arg, drawn, s) ==
    [kind |-> kind, arg |-> arg, drawn |-> drawn,
     was_dragging |-> s.dragging, was_resizing |-> s.resizing,
     was_menu |-> s.menu_state = "Visible"]

NoEvent == [kind |-> "Start", arg |-> 0, drawn |-> "none",
            was_dragging |-> FALSE, was_resizing |-> FALSE, was_menu |-> FALSE]

\* What copy_to_clipboard meets: image::save_buffer succeeds ("ok"), fails
\* before it touches the path ("err") or fails after it created the file
\* ("err_partial"); spawning wl-copy or xclip succeeds ("ok") or fails
\* ("unavailable").
ClipboardAnswers ==
    [save : {"ok", "err", "err_partial"},
     wl_copy : {"ok", "unavailable"},
     xclip : {"ok", "unavailable"}]

ClipboardOk == [save |-> "ok", wl_copy |-> "ok", xclip |-> "ok"]

\* `file`: the temporary file exists; `copied`: the handler of the last event
\* ran copy_to_clipboard; `tried`: the utilities it tried to spawn, in order
NewClipboard(answers, file) ==
    [answers |-> answers, file |-> file, copied |-> FALSE, tried |-> <<>>]

copy_to_clipboard(c) ==
    IF c.answers.save # "ok"
    THEN \* `return` before any utility is tried and before remove_file
         [c EXCEPT !.copied = TRUE, !.tried = <<>>,
                   !.file = (c.answers.save = "err_partial") \/ c.file]
    ELSE [c EXCEPT !.copied = TRUE,
                   !.tried = IF c.answers.wl_copy = "ok" THEN <<"wl-copy">>
                             ELSE <<"wl-copy", "xclip">>,
                   \* remove_file(temp_path)
                   !.file = FALSE]

\* an event whose handler does not reach copy_to_clipboard
NoCopy(c) == [c EXCEPT !.copied = FALSE, !.tried = <<>>]

InitFrom(images, displays, opacities, gpus, answers, files) ==
    /\ \E image \in images, display \in displays, opacity \in opacities, use_gpu \in gpus :
           app = NewApp(image, display, opacity, use_gpu)
    /\ pc = "running"
    /\ ev = NoEvent
    /\ frame = NoFrame
    /\ gestures = 0
    /\ \E a \in answers, file \in files : clipboard = NewClipboard(a, file)

\* a start where saving and both utilities work and no temporary file is left
\* over
InitWith(images, displays, opacities, gpus) ==
    InitFrom(images, displays, opacities, gpus, {ClipboardOk}, {FALSE})

---------------------------------------------------------------------------
(* The redraw pipeline                                                     *)

\* What the collaborators answer during one draw() call.
\*   gpu: WgpuRenderer::render gives Ok(true) "ok", Ok(false) "noop", Err "err"
\*   shm: the first shared-memory step that fails, or "ok"
GpuAnswers == {"ok", "noop", "err"}
ShmAnswers == {"ok", "new_fail", "resize_fail", "buffer_fail", "attach_fail"}
AllGoes == [gpu |-> "ok", shm |-> "ok"]
DrawAnswers == [gpu : GpuAnswers, shm : ShmAnswers]

\* `(stride * height as i32) as usize`
BufferSize(width, height) == width * 4 * height

\* `(width as f32 * (MAX_BUFFER_SIZE as f32 / buffer_size as f32).sqrt()) as u32`:
\* the largest k with k*k*height <= (MAX_BUFFER_SIZE/4)*width, evaluated on
\* quotients by MAX_SIZE to stay within machine integers
ScaleToBuffer(width, height) ==
    CHOOSE k \in 0..width :
        /\ ((k * k) \div MAX_SIZE) * height <= MAX_SIZE * width
        /\ (k < width =>
              (((k + 1) * (k + 1)) \div MAX_SIZE) * height > MAX_SIZE * width)

\* The buffer render_image_static samples, as its <<width, height>>: the base
\* image or a level of the pyramid. The f32 quotients are compared exactly;
\* for the sizes explored two different quotients are more than an f32 ulp
\* apart, and none lies within an ulp of 0.7.
QualitySource(image, mipmaps, width, height) ==
    LET \* scale_ratio as a fraction: the smaller of width/image.width and
        \* height/image.height
        by_x == FracLess(width, image[1], height, image[2])
        ratio_n == IF by_x THEN width ELSE height
        ratio_d == IF by_x THEN image[1] ELSE image[2]
        \* `mip_scale >= scale_ratio` for the level at index i (from 0)
        Reaches(i) == ~FracLess(mipmaps[i + 1][1], image[1], ratio_n, ratio_d)
        hits == {i \in 0 .. Len(mipmaps) - 1 : Reaches(i)}
        first == CHOOSE i \in hits : \A j \in hits : i <= j
        \* the `for` loop: it breaks at the first level that reaches the ratio
        best_level == IF hits # {} THEN Max(first - 1, 0) ELSE Len(mipmaps) - 1
    IN  IF FracLess(ratio_n, ratio_d, 7, 10) /\ mipmaps # <<>>
        THEN IF best_level > 0 /\ best_level <= Len(mipmaps)
             THEN mipmaps[best_level]
             ELSE image
        ELSE image

Rendered(s, drawn, panic) == [app |-> s, drawn |-> drawn, panic |-> panic]

\* render path selection and cache bookkeeping of draw_cpu
RenderPath(s) ==
    IF s.resizing THEN "fast"
    ELSE IF ~s.use_gpu
         THEN IF s.cached_scaled_size = <<s.width, s.height>>
                 /\ IsSome(s.cached_scaled_image)
              THEN "cache" ELSE "quality"
         ELSE "quality"

\* a cache that also keeps what the fast path rendered
CacheAfterRenderAnyPath(s) ==
    IF ~s.use_gpu
    THEN IF s.cached_scaled_size = <<s.width, s.height>>
         THEN s
         ELSE [s EXCEPT !.cached_scaled_image = Some(<<s.width, s.height>>),
                        !.cached_scaled_size = <<s.width, s.height>>]
    ELSE [s EXCEPT !.cached_scaled_image = None,
                   !.cached_scaled_size = <<0, 0>>]

CacheAfterRender(s) ==
    IF s.resizing THEN s
    ELSE IF ~s.use_gpu
         THEN IF s.cached_scaled_size = <<s.width, s.height>>
              THEN s
              ELSE [s EXCEPT !.cached_scaled_image = Some(<<s.width, s.height>>),
                             !.cached_scaled_size = <<s.width, s.height>>]
         ELSE [s EXCEPT !.cached_scaled_image = None,
                        !.cached_scaled_size = <<0, 0>>]

draw_cpu(s0, shm) ==
    LET s == [s0 EXCEPT !.width = Clamp(s0.width, MIN_SIZE, MAX_SIZE),
                        !.height = Clamp(s0.height, MIN_SIZE, MAX_SIZE)]
    IN  IF BufferSize(s.width, s.height) > MAX_BUFFER_SIZE
        THEN Rendered([s EXCEPT !.width = ScaleToBuffer(s.width, s.height),
                                !.height = ScaleToBuffer(s.height, s.width)],
                      "none", FALSE)
        ELSE IF ~s.pool /\ shm = "new_fail"
        THEN Rendered(s, "none", FALSE)
        ELSE IF s.pool /\ shm = "resize_fail"
        THEN Rendered([s EXCEPT !.pool = FALSE], "none", FALSE)
        ELSE IF shm = "buffer_fail"
        THEN Rendered([s EXCEPT !.pool = TRUE], "none", FALSE)
        ELSE IF shm = "attach_fail"
        THEN Rendered([CacheAfterRender(s) EXCEPT !.pool = FALSE], RenderPath(s), TRUE)
        ELSE Rendered([CacheAfterRender(s) EXCEPT !.pool = TRUE,
                                                  !.needs_redraw = FALSE],
                      RenderPath(s), FALSE)

draw_gpu(s, gpu) ==
    IF ~s.gpu_renderer THEN Rendered(s, "none", FALSE)
    ELSE IF gpu = "ok" THEN Rendered([s EXCEPT !.needs_redraw = FALSE], "gpu", FALSE)
    ELSE Rendered(s, "none", FALSE)

\* a draw without the `configured` guard
draw_unconfigured(s0, o) ==
    LET max_width == Min(Max(s0.display_width, MIN_SIZE), MAX_SIZE)
        max_height == Min(Max(s0.display_height, MIN_SIZE), MAX_SIZE)
        s == [s0 EXCEPT !.width = Clamp(s0.width, MIN_SIZE, max_width),
                        !.height = Clamp(s0.height, MIN_SIZE, max_height)]
    IN  IF s.use_gpu /\ s.gpu_renderer /\ draw_gpu(s, o.gpu).drawn = "gpu"
        THEN draw_gpu(s, o.gpu)
        ELSE draw_cpu(s, o.shm)

\* a draw that gives the frame up when the hardware backend does not render
draw_no_fallback(s0, o) ==
    IF ~s0.configured THEN Rendered(s0, "none", FALSE)
    ELSE LET max_width == Min(Max(s0.display_width, MIN_SIZE), MAX_SIZE)
             max_height == Min(Max(s0.display_height, MIN_SIZE), MAX_SIZE)
             s == [s0 EXCEPT !.width = Clamp(s0.width, MIN_SIZE, max_width),
                             !.height = Clamp(s0.height, MIN_SIZE, max_height)]
         IN  IF s.use_gpu /\ s.gpu_renderer
             THEN draw_gpu(s, o.gpu)
             ELSE draw_cpu(s, o.shm)

draw(s0, o) ==
    IF ~s0.configured THEN Rendered(s0, "none", FALSE)
    ELSE LET max_width == Min(Max(s0.display_width, MIN_SIZE), MAX_SIZE)
             max_height == Min(Max(s0.display_height, MIN_SIZE), MAX_SIZE)
             s == [s0 EXCEPT !.width = Clamp(s0.width, MIN_SIZE, max_width),
                             !.height = Clamp(s0.height, MIN_SIZE, max_height)]
         IN  IF s.use_gpu /\ s.gpu_renderer /\ draw_gpu(s, o.gpu).drawn = "gpu"
             THEN draw_gpu(s, o.gpu)
             ELSE draw_cpu(s, o.shm)

\* the frame a completed draw hands to the display surface
FrameOf(r, old) ==
    IF r.drawn = "none" \/ r.panic THEN old
    ELSE [path |-> r.drawn, width |-> r.app.width, height |-> r.app.height,
          opacity |-> r.app.opacity, age |-> 0]

\* the event loop of run(): a panic unwinds, an exit signal ends the loop
PcAfter(r) ==
    IF r.panic THEN "panicked"
    ELSE IF r.app.should_exit THEN "exited"
    ELSE "running"

\* an event handler has run to its end with result r
Handled(kind, arg, r) ==
    /\ app' = r.app
    /\ ev' = Event(kind, arg, r.drawn, app)
    /\ frame' = FrameOf(r, frame)
    /\ pc' = PcAfter(r)

---------------------------------------------------------------------------
(* Surface events                                                          *)

\* What init_gpu_renderer meets: a null display pointer, a renderer that
\* cannot be built, a texture that cannot be uploaded, or success
GpuInitAnswers == {"null_display", "new_err", "upload_err", "ok"}

\* an initialization that leaves the hardware path requested when it fails
init_gpu_renderer_retrying(s, g) ==
    IF s.gpu_initialized THEN s
    ELSE IF g = "ok" THEN [s EXCEPT !.gpu_renderer = TRUE, !.gpu_initialized = TRUE]
    ELSE s

init_gpu_renderer(s, g) ==
    IF s.gpu_initialized THEN s
    ELSE IF g = "ok" THEN [s EXCEPT !.gpu_renderer = TRUE, !.gpu_initialized = TRUE]
    ELSE [s EXCEPT !.use_gpu = FALSE]

\* a configure that takes the suggested size whatever the pointer is doing
ConfigureAlways(s0, new_size, g) ==
    LET s1 == [s0 EXCEPT
                 !.width = IF new_size[1] > 0 /\ new_size[1] # s0.width
                           THEN new_size[1] ELSE s0.width,
                 !.height = IF new_size[2] > 0 /\ new_size[2] # s0.height
                            THEN new_size[2] ELSE s0.height]
        s2 == [s1 EXCEPT !.configured = TRUE, !.needs_redraw = TRUE]
    IN  IF s2.use_gpu /\ ~s2.gpu_initialized THEN init_gpu_renderer(s2, g) ELSE s2

\* LayerShellHandler::configure
ConfigureApp(s0, new_size, g) ==
    LET s1 == IF ~s0.dragging /\ ~s0.resizing
              THEN [s0 EXCEPT
                      !.width = IF new_size[1] > 0 /\ new_size[1] # s0.width
                                THEN new_size[1] ELSE s0.width,
                      !.height = IF new_size[2] > 0 /\ new_size[2] # s0.height
                                 THEN new_size[2] ELSE s0.height]
              ELSE s0
        s2 == [s1 EXCEPT !.configured = TRUE, !.needs_redraw = TRUE]
    IN  IF s2.use_gpu /\ ~s2.gpu_initialized THEN init_gpu_renderer(s2, g) ELSE s2

Configure(new_size, g, o) ==
    /\ pc = "running"
    /\ Handled("Configure", 0, draw(ConfigureApp(app, new_size, g), o))
    /\ UNCHANGED gestures
    /\ clipboard' = NoCopy(clipboard)

\* LayerShellHandler::closed
Closed ==
    /\ pc = "running"
    /\ Handled("Closed", 0, Rendered([app EXCEPT !.should_exit = TRUE], "none", FALSE))
    /\ UNCHANGED gestures
    /\ clipboard' = NoCopy(clipboard)

\* CompositorHandler::frame
Frame(o) ==
    /\ pc = "running"
    /\ Handled("Frame", 0, IF app.needs_redraw THEN draw(app, o)
                            ELSE Rendered(app, "none", FALSE))
    /\ UNCHANGED gestures
    /\ clipboard' = NoCopy(clipboard)

\* KeyboardHandler::press_key
KeySyms == {"Escape", "q", "a"}

PressKey(keysym) ==
    /\ pc = "running"
    /\ Handled("Key", 0,
               Rendered(IF keysym = "Escape" \/ keysym = "q"
                        THEN [app EXCEPT !.should_exit = TRUE] ELSE app,
                        "none", FALSE))
    /\ UNCHANGED gestures
    /\ clipboard' = NoCopy(clipboard)

\* `event_queue.blocking_dispatch(&mut app)?` returns an error
DispatchError ==
    /\ pc = "running"
    /\ pc' = "failed"
    /\ ev' = Event("DispatchError", 0, "none", app)
    /\ UNCHANGED <<app, frame, gestures>>
    /\ clipboard' = NoCopy(clipboard)

\* Time passes between two events: every stored Instant ages by d ms
AgeBy(o, d, cap) == IF IsSome(o) THEN Some(Min(Unwrap(o) + d, cap)) ELSE o

Tick(d) ==
    /\ pc = "running"
    /\ LET click == AgeBy(app.last_click_time, d, ClickAgeCap)
           drawn == AgeBy(app.last_resize_draw, d, DrawAgeCap)
           shown == IF frame.path = "none" THEN frame
                    ELSE [frame EXCEPT !.age = Min(frame.age + d, DrawAgeCap)]
       IN  /\ click # app.last_click_time \/ drawn # app.last_resize_draw
                \/ shown # frame
           /\ IsSome(click) => Unwrap(click) \in TimePoints
           /\ IsSome(drawn) => Unwrap(drawn) \in TimePoints
           /\ shown.age \in TimePoints
           /\ app' = [app EXCEPT !.last_click_time = click, !.last_resize_draw = drawn]
           /\ frame' = shown
    /\ ev' = Event("Tick", d, "none", app)
    /\ UNCHANGED <<pc, gestures, clipboard>>

---------------------------------------------------------------------------
(* Geometry, menu and opacity helpers of WaylandApp                        *)

\* an edge detection in which the left and right edges win over the corners
detect_resize_edge_sides_first(s, x, y) ==
    LET near_left == x < RESIZE_MARGIN
        near_right == x > s.width - RESIZE_MARGIN
        near_top == y < RESIZE_MARGIN
        near_bottom == y > s.height - RESIZE_MARGIN
    IN  IF near_left /\ ~near_right THEN "Left"
        ELSE IF near_right /\ ~near_left THEN "Right"
        ELSE IF near_top /\ ~near_bottom THEN "Top"
        ELSE IF near_bottom /\ ~near_top THEN "Bottom"
        ELSE "None"

detect_resize_edge(s, x, y) ==
    LET near_left == x < RESIZE_MARGIN
        near_right == x > s.width - RESIZE_MARGIN
        near_top == y < RESIZE_MARGIN
        near_bottom == y > s.height - RESIZE_MARGIN
        m == <<near_left, near_right, near_top, near_bottom>>
    IN  CASE m = <<TRUE, FALSE, TRUE, FALSE>> -> "TopLeft"
          [] m = <<FALSE, TRUE, TRUE, FALSE>> -> "TopRight"
          [] m = <<TRUE, FALSE, FALSE, TRUE>> -> "BottomLeft"
          [] m = <<FALSE, TRUE, FALSE, TRUE>> -> "BottomRight"
          [] m = <<TRUE, FALSE, FALSE, FALSE>> -> "Left"
          [] m = <<FALSE, TRUE, FALSE, FALSE>> -> "Right"
          [] m = <<FALSE, FALSE, TRUE, FALSE>> -> "Top"
          [] m = <<FALSE, FALSE, FALSE, TRUE>> -> "Bottom"
          [] OTHER -> "None"

\* menu labels that name the scale mode in force
get_menu_items_current(s) ==
    LET scale_mode_text == IF s.scale_mode = "KeepAspectRatio"
                           THEN "Scale: Keep Ratio" ELSE "Scale: Free"
    IN  <<"Close", "Copy to Clipboard", "Opacity +", "Opacity -", scale_mode_text>>

\* the labels of the menu, without the pictograph each one starts with
get_menu_items(s) ==
    LET scale_mode_text == IF s.scale_mode = "KeepAspectRatio"
                           THEN "Scale: Free" ELSE "Scale: Keep Ratio"
    IN  <<"Close", "Copy to Clipboard", "Opacity +", "Opacity -", scale_mode_text>>

\* a hit test that takes the right border of the menu for a part of it
get_menu_item_at_closed(s, x, y) ==
    IF s.menu_state # "Visible" THEN None
    ELSE LET menu_x == s.menu_pos[1]
             menu_y == s.menu_pos[2]
             menu_h == MENU_ITEM_COUNT * MENU_ITEM_HEIGHT
         IN  IF x >= menu_x /\ x <= menu_x + MENU_WIDTH
                /\ y >= menu_y /\ y < menu_y + menu_h
             THEN Some((y - menu_y) \div MENU_ITEM_HEIGHT)
             ELSE None

get_menu_item_at(s, x, y) ==
    IF s.menu_state # "Visible" THEN None
    ELSE LET menu_x == s.menu_pos[1]
             menu_y == s.menu_pos[2]
             menu_h == MENU_ITEM_COUNT * MENU_ITEM_HEIGHT
         IN  IF x >= menu_x /\ x < menu_x + MENU_WIDTH
                /\ y >= menu_y /\ y < menu_y + menu_h
                /\ (y - menu_y) \div MENU_ITEM_HEIGHT < MENU_ITEM_COUNT
             THEN Some((y - menu_y) \div MENU_ITEM_HEIGHT)
             ELSE None

toggle_scale_mode(s) ==
    [s EXCEPT !.scale_mode = IF s.scale_mode = "KeepAspectRatio"
                             THEN "FreeScale" ELSE "KeepAspectRatio",
              !.cached_scaled_image = None]

adjust_opacity(s, delta) ==
    LET new_opacity == Clamp(RoundF32(s.opacity + delta), OPACITY_MIN, OPACITY_MAX)
    IN  IF Abs(RoundF32(new_opacity - s.opacity)) > F32_EPSILON
        THEN [s EXCEPT !.opacity = new_opacity, !.needs_redraw = TRUE]
        ELSE s

\* a menu action that asks for a redraw only when it changed something
handle_menu_action_lazy(s, item) ==
    LET t == CASE item = MENU_ITEM_CLOSE -> [s EXCEPT !.should_exit = TRUE]
               [] item = MENU_ITEM_COPY -> s
               [] item = MENU_ITEM_OPACITY_UP -> adjust_opacity(s, OPACITY_STEP)
               [] item = MENU_ITEM_OPACITY_DOWN -> adjust_opacity(s, -OPACITY_STEP)
               [] item = MENU_ITEM_SCALE_MODE ->
                    [toggle_scale_mode(s) EXCEPT !.needs_redraw = TRUE]
               [] OTHER -> s
    IN  [t EXCEPT !.menu_state = "Hidden"]

handle_menu_action(s, item) ==
    LET t == CASE item = MENU_ITEM_CLOSE -> [s EXCEPT !.should_exit = TRUE]
               [] item = MENU_ITEM_COPY -> s
               [] item = MENU_ITEM_OPACITY_UP -> adjust_opacity(s, OPACITY_STEP)
               [] item = MENU_ITEM_OPACITY_DOWN -> adjust_opacity(s, -OPACITY_STEP)
               [] item = MENU_ITEM_SCALE_MODE -> toggle_scale_mode(s)
               [] OTHER -> s
    IN  [t EXCEPT !.menu_state = "Hidden", !.needs_redraw = TRUE]

update_size(s0) ==
    LET max_width == Min(Max(s0.display_width, MIN_SIZE), MAX_SIZE)
        max_height == Min(Max(s0.display_height, MIN_SIZE), MAX_SIZE)
        s == [s0 EXCEPT !.width = Clamp(s0.width, MIN_SIZE, max_width),
                        !.height = Clamp(s0.height, MIN_SIZE, max_height)]
    IN  IF s.resizing /\ IsSome(s.last_resize_draw)
           /\ Unwrap(s.last_resize_draw) < MIN_FRAME_INTERVAL_MS
        THEN s
        ELSE [s EXCEPT !.last_resize_draw = IF s.resizing THEN Some(0) ELSE @,
                       !.pool = FALSE,
                       !.needs_redraw = TRUE]

---------------------------------------------------------------------------
(* Resize geometry of the Motion arm                                       *)

\* the larger of the fractions a[1]/a[2] and b[1]/b[2] (f32::max)
FracMax(a, b) == IF a[1] * b[2] >= b[1] * a[2] THEN a ELSE b

\* scale_by_x.max(scale_by_y).max(MIN_SIZE as f32 / start_w as f32)
CornerScale(w_num, h_num, start_w, start_h) ==
    FracMax(FracMax(<<w_num, start_w>>, <<h_num, start_h>>), <<MIN_SIZE, start_w>>)

\* `(start as f32 * scale) as u32`
Scaled(start, scale) == TruncQuot(start * scale[1], scale[2])

\* `(start as i32 + d).max(MIN_SIZE as i32) as u32`
Grown(start, d) == Max(start + d, MIN_SIZE)

\* <<new_w, new_h, new_ml, new_mt>> before the size constraints are applied
ResizeRule(edge, keep_ratio, image, start_size, start_margin, dx, dy) ==
    LET start_w == start_size[1]
        start_h == start_size[2]
        start_ml == start_margin[1]
        start_mt == start_margin[2]
        \* new_w as f32 / aspect_ratio, new_h as f32 * aspect_ratio
        HeightFor(w) == TruncQuot(w * image[2], image[1])
        WidthFor(h) == TruncQuot(h * image[1], image[2])
        Corner(sx, sy) ==
            IF keep_ratio
            THEN LET scale == CornerScale(start_w + sx * dx, start_h + sy * dy,
                                          start_w, start_h)
                 IN  <<Scaled(start_w, scale), Scaled(start_h, scale)>>
            ELSE <<Grown(start_w, sx * dx), Grown(start_h, sy * dy)>>
    IN  CASE edge = "Right" ->
               LET new_w == Grown(start_w, dx)
               IN  <<new_w, IF keep_ratio THEN HeightFor(new_w) ELSE start_h,
                     start_ml, start_mt>>
          [] edge = "Bottom" ->
               LET new_h == Grown(start_h, dy)
               IN  <<IF keep_ratio THEN WidthFor(new_h) ELSE start_w, new_h,
                     start_ml, start_mt>>
          [] edge = "BottomRight" ->
               LET c == Corner(1, 1) IN <<c[1], c[2], start_ml, start_mt>>
          [] edge = "Left" ->
               LET new_w == Grown(start_w, -dx)
                   new_h == IF keep_ratio THEN HeightFor(new_w) ELSE start_h
               IN  <<new_w, new_h, start_ml + (start_w - new_w),
                     IF keep_ratio THEN start_mt - HalfI32(new_h - start_h)
                     ELSE start_mt>>
          [] edge = "Top" ->
               LET new_h == Grown(start_h, -dy)
                   new_w == IF keep_ratio THEN WidthFor(new_h) ELSE start_w
               IN  <<new_w, new_h,
                     IF keep_ratio THEN start_ml - HalfI32(new_w - start_w)
                     ELSE start_ml,
                     start_mt + (start_h - new_h)>>
          [] edge = "TopLeft" ->
               LET c == Corner(-1, -1)
               IN  <<c[1], c[2], start_ml + (start_w - c[1]), start_mt + (start_h - c[2])>>
          [] edge = "TopRight" ->
               LET c == Corner(1, -1)
               IN  <<c[1], c[2], start_ml, start_mt + (start_h - c[2])>>
          [] edge = "BottomLeft" ->
               LET c == Corner(-1, 1)
               IN  <<c[1], c[2], start_ml + (start_w - c[1]), start_mt>>
          [] OTHER -> <<start_w, start_h, start_ml, start_mt>>

\* "Apply size constraints (min and max)" and the buffer-size cap
SizeConstraints(w, h) ==
    LET new_w == Clamp(w, MIN_SIZE, MAX_SIZE)
        new_h == Clamp(h, MIN_SIZE, MAX_SIZE)
    IN  IF new_w * new_h * 4 > MAX_BUFFER_SIZE
        THEN <<ScaleToBuffer(new_w, new_h), ScaleToBuffer(new_h, new_w)>>
        ELSE <<new_w, new_h>>

\* a resize step that starts from the size and margins the last Motion left
ResizeMotionIncremental(s, x, y) ==
    LET dx == x - s.resize_start_pos[1]
        dy == y - s.resize_start_pos[2]
        g == ResizeRule(s.resize_edge, s.scale_mode = "KeepAspectRatio", s.image,
                        <<s.width, s.height>>, <<s.margin_left, s.margin_top>>, dx, dy)
        size == SizeConstraints(g[1], g[2])
    IN  update_size([s EXCEPT !.width = size[1], !.height = size[2],
                              !.margin_left = g[3], !.margin_top = g[4]])

\* the "Handle resizing" block of the Motion arm
ResizeMotion(s, x, y) ==
    LET dx == x - s.resize_start_pos[1]
        dy == y - s.resize_start_pos[2]
        g == ResizeRule(s.resize_edge, s.scale_mode = "KeepAspectRatio", s.image,
                        s.resize_start_size, s.resize_start_margin, dx, dy)
        size == SizeConstraints(g[1], g[2])
    IN  update_size([s EXCEPT !.width = size[1], !.height = size[2],
                              !.margin_left = g[3], !.margin_top = g[4]])

\* the "Handle dragging" block of the Motion arm
DragMotion(s, x, y) ==
    [s EXCEPT !.margin_left = s.drag_start_margin[1] + (x - s.drag_start_pos[1]),
              !.margin_top = s.drag_start_margin[2] + (y - s.drag_start_pos[2])]

\* the "Update menu hover state" block of the Motion arm
HoverMotion(s, x, y) ==
    IF s.menu_state = "Visible"
    THEN LET hover == get_menu_item_at(s, x, y)
         IN  [s EXCEPT !.menu_hover_item = hover,
                       !.needs_redraw = IF hover # s.menu_hover_item THEN TRUE ELSE @]
    ELSE s

---------------------------------------------------------------------------
(* PointerHandler::pointer_frame, one arm per event kind                   *)

\* PointerEventKind::Enter (only the cursor hint, which is not modelled)
Enter ==
    /\ pc = "running"
    /\ Handled("Enter", 0, Rendered(app, "none", FALSE))
    /\ UNCHANGED gestures
    /\ clipboard' = NoCopy(clipboard)

\* a Leave handled the way a Release of a resize is
LeaveAsRelease(s) ==
    [s EXCEPT !.dragging = FALSE, !.resizing = FALSE,
              !.cached_scaled_image = IF s.resizing THEN None ELSE @,
              !.needs_redraw = IF s.resizing THEN TRUE ELSE @]

\* PointerEventKind::Leave
LeaveApp(s) == [s EXCEPT !.dragging = FALSE, !.resizing = FALSE]

Leave ==
    /\ pc = "running"
    /\ Handled("Leave", 0, Rendered(LeaveApp(app), "none", FALSE))
    /\ UNCHANGED gestures
    /\ clipboard' = NoCopy(clipboard)

\* a Motion arm that leaves the geometry alone while the throttle skips
MotionAppSkipping(s0, x, y) ==
    LET s1 == HoverMotion([s0 EXCEPT !.pointer_pos = <<x, y>>], x, y)
        s2 == IF s1.dragging THEN DragMotion(s1, x, y) ELSE s1
    IN  IF s2.resizing
        THEN IF IsSome(s2.last_resize_draw)
                /\ Unwrap(s2.last_resize_draw) < MIN_FRAME_INTERVAL_MS
             THEN s2
             ELSE ResizeMotion(s2, x, y)
        ELSE s2

\* PointerEventKind::Motion
MotionApp(s0, x, y) ==
    LET s1 == HoverMotion([s0 EXCEPT !.pointer_pos = <<x, y>>], x, y)
        s2 == IF s1.dragging THEN DragMotion(s1, x, y) ELSE s1
    IN  IF s2.resizing THEN ResizeMotion(s2, x, y) ELSE s2

Motion(x, y) ==
    /\ pc = "running"
    /\ app.configured
    /\ Handled("Motion", 0, Rendered(MotionApp(app, x, y), "none", FALSE))
    /\ UNCHANGED gestures
    /\ clipboard' = NoCopy(clipboard)

\* a double-click test that accepts a press at exactly the threshold
is_double_click_inclusive(s, x, y) ==
    IF IsSome(s.last_click_time)
    THEN LET dx == x - s.last_click_pos[1]
             dy == y - s.last_click_pos[2]
         IN  Unwrap(s.last_click_time) <= DOUBLE_CLICK_THRESHOLD_MS
             /\ dx * dx + dy * dy < DOUBLE_CLICK_DISTANCE * DOUBLE_CLICK_DISTANCE
    ELSE FALSE

\* "Check for double-click"
is_double_click(s, x, y) ==
    IF IsSome(s.last_click_time)
    THEN LET elapsed == Unwrap(s.last_click_time)
             dx == x - s.last_click_pos[1]
             dy == y - s.last_click_pos[2]
         IN  elapsed < DOUBLE_CLICK_THRESHOLD_MS
             /\ dx * dx + dy * dy < DOUBLE_CLICK_DISTANCE * DOUBLE_CLICK_DISTANCE
    ELSE FALSE

\* a gesture entry that records the pointer but not the size it starts from
StartGestureNoSize(s, x, y) ==
    LET edge == detect_resize_edge(s, x, y)
    IN  IF edge # "None"
        THEN [s EXCEPT !.resizing = TRUE,
                       !.resize_edge = edge,
                       !.resize_start_pos = <<x, y>>,
                       !.resize_start_margin = <<s.margin_left, s.margin_top>>]
        ELSE [s EXCEPT !.dragging = TRUE,
                       !.drag_start_pos = <<x, y>>,
                       !.drag_start_margin = <<s.margin_left, s.margin_top>>]

\* "Check if on resize edge" and "Start dragging for window move"
StartGesture(s, x, y) ==
    LET edge == detect_resize_edge(s, x, y)
    IN  IF edge # "None"
        THEN [s EXCEPT !.resizing = TRUE,
                       !.resize_edge = edge,
                       !.resize_start_pos = <<x, y>>,
                       !.resize_start_size = <<s.width, s.height>>,
                       !.resize_start_margin = <<s.margin_left, s.margin_top>>]
        ELSE [s EXCEPT !.dragging = TRUE,
                       !.drag_start_pos = <<x, y>>,
                       !.drag_start_margin = <<s.margin_left, s.margin_top>>]

\* the press once the menu is out of the way: double-click or gesture entry
ClickOrGesture(s, x, y) ==
    IF is_double_click(s, x, y)
    THEN [s EXCEPT !.should_exit = TRUE]
    ELSE StartGesture([s EXCEPT !.last_click_time = Some(0),
                                !.last_click_pos = <<x, y>>], x, y)

\* Press with button == BTN_LEFT
PressLeftApp(s, o) ==
    LET x == s.pointer_pos[1]
        y == s.pointer_pos[2]
    IN  IF s.menu_state = "Visible"
        THEN IF IsSome(get_menu_item_at(s, x, y))
             THEN draw(handle_menu_action(s, Unwrap(get_menu_item_at(s, x, y))), o)
             ELSE LET r == draw([s EXCEPT !.menu_state = "Hidden",
                                          !.needs_redraw = TRUE], o)
                  IN  IF r.panic THEN r
                      ELSE Rendered(ClickOrGesture(r.app, x, y), r.drawn, FALSE)
        ELSE Rendered(ClickOrGesture(s, x, y), "none", FALSE)

\* Press with button == BTN_RIGHT
ShowMenu(s) ==
    LET x == s.pointer_pos[1]
        y == s.pointer_pos[2]
        menu_height == MENU_ITEM_COUNT * MENU_ITEM_HEIGHT
        px == IF x + MENU_WIDTH > s.width THEN s.width - MENU_WIDTH ELSE x
        py == IF y + menu_height > s.height THEN s.height - menu_height ELSE y
    IN  [s EXCEPT !.menu_state = "Visible",
                  !.menu_pos = <<Max(px, 0), Max(py, 0)>>,
                  !.needs_redraw = TRUE]

PressApp(s, button, o) ==
    IF button = BTN_LEFT THEN PressLeftApp(s, o)
    ELSE IF button = BTN_RIGHT THEN draw(ShowMenu(s), o)
    ELSE Rendered(s, "none", FALSE)

\* whether the press reaches the gesture entry at the end of the BTN_LEFT arm
StartsGesture(s, button, r) ==
    /\ button = BTN_LEFT
    /\ ~r.panic
    /\ ~(s.menu_state = "Visible"
         /\ IsSome(get_menu_item_at(s, s.pointer_pos[1], s.pointer_pos[2])))
    /\ ~is_double_click(s, s.pointer_pos[1], s.pointer_pos[2])

\* the press reaches handle_menu_action with the Copy item
CopyChosen(s, button) ==
    /\ button = BTN_LEFT
    /\ s.menu_state = "Visible"
    /\ get_menu_item_at(s, s.pointer_pos[1], s.pointer_pos[2]) = Some(MENU_ITEM_COPY)

Press(button, o, max_gestures) ==
    /\ pc = "running"
    /\ app.configured
    /\ LET r == PressApp(app, button, o)
       IN  /\ StartsGesture(app, button, r) => gestures < max_gestures
           /\ gestures' = IF StartsGesture(app, button, r) THEN gestures + 1 ELSE gestures
           /\ Handled("Press", button, r)
    /\ clipboard' = IF CopyChosen(app, button) THEN copy_to_clipboard(clipboard)
                    ELSE NoCopy(clipboard)

\* a Release that redraws without invalidating the cache
ReleaseKeepingCache(s, button, o) ==
    IF button = BTN_LEFT
    THEN LET t == [s EXCEPT !.dragging = FALSE, !.resizing = FALSE,
                            !.resize_edge = "None"]
         IN  IF s.resizing
             THEN draw([t EXCEPT !.needs_redraw = TRUE], o)
             ELSE Rendered(t, "none", FALSE)
    ELSE Rendered(s, "none", FALSE)

\* PointerEventKind::Release
ReleaseApp(s, button, o) ==
    IF button = BTN_LEFT
    THEN LET t == [s EXCEPT !.dragging = FALSE, !.resizing = FALSE,
                            !.resize_edge = "None"]
         IN  IF s.resizing
             THEN draw([t EXCEPT !.cached_scaled_image = None,
                                 !.needs_redraw = TRUE], o)
             ELSE Rendered(t, "none", FALSE)
    ELSE Rendered(s, "none", FALSE)

Release(button, o) ==
    /\ pc = "running"
    /\ app.configured
    /\ Handled("Release", button, ReleaseApp(app, button, o))
    /\ UNCHANGED gestures
    /\ clipboard' = NoCopy(clipboard)

\* an Axis arm with the scroll direction the other way round
AxisInverted(s, vertical, o) ==
    IF vertical # 0
    THEN draw(adjust_opacity(s, IF vertical > 0 THEN OPACITY_STEP ELSE -OPACITY_STEP), o)
    ELSE Rendered(s, "none", FALSE)

\* PointerEventKind::Axis; vertical is the sign of vertical.absolute
AxisApp(s, vertical, o) ==
    IF vertical # 0
    THEN draw(adjust_opacity(s, IF vertical > 0 THEN -OPACITY_STEP ELSE OPACITY_STEP), o)
    ELSE Rendered(s, "none", FALSE)

Axis(vertical, o) ==
    /\ pc = "running"
    /\ app.configured
    /\ Handled("Axis", vertical, AxisApp(app, vertical, o))
    /\ UNCHANGED gestures
    /\ clipboard' = NoCopy(clipboard)

---------------------------------------------------------------------------
(* Inputs                                                                  *)

\* a 400x200 image is shown at its own size on either display
Images == {<<400, 200>>}
FullHd == <<1920, 1080>>
EightK == <<7680, 4320>>

\* pointer positions in surface coordinates, named for where they lie on the
\* 400x200 surface the viewer starts with
Centre == <<200, 60>>
LowerMiddle == <<210, 180>>
LeftEdge == <<5, 100>>
RightEdge == <<395, 100>>
TopEdge == <<200, 5>>
BottomEdge == <<200, 195>>
TopLeftCorner == <<5, 5>>
TopRightCorner == <<395, 5>>
BottomLeftCorner == <<5, 195>>
BottomRightCorner == <<395, 195>>
FarOutside == <<5000, 5000>>
FarBefore == <<-300, -300>>
EdgePoints == {LeftEdge, RightEdge, TopEdge, BottomEdge, TopLeftCorner,
               TopRightCorner, BottomLeftCorner, BottomRightCorner}

---------------------------------------------------------------------------
(* Spec: the gesture state machine under pointer, surface and clock events *)

Points == {Centre, LeftEdge}

Init == InitWith(Images, {FullHd}, {OPACITY_MAX}, {TRUE, FALSE})

Next ==
    \/ \E g \in {"ok", "new_err"} : Configure(<<0, 0>>, g, AllGoes)
    \/ Tick(ClickAgeCap)
    \/ Leave
    \/ \E p \in Points : Motion(p[1], p[2])
    \/ Press(BTN_LEFT, AllGoes, MaxGestures)
    \/ \E button \in {BTN_LEFT, BTN_RIGHT} : Release(button, AllGoes)

Spec == Init /\ [][Next]_vars

---------------------------------------------------------------------------
(* SpecResize: resize gestures from every edge, in both scale modes        *)

\* The surface is configured once.  The pointer is put on an edge or a
\* corner and pressed; while the resize lasts it is dragged to the middle
\* of the image or far beyond either end of the display.  A secondary press
\* at LowerMiddle opens the menu with Toggle-Scale-Mode under the pointer.
InitResize == InitWith(Images, {FullHd, EightK}, {OPACITY_MAX}, {FALSE})

NextResize ==
    \/ ~app.configured /\ Configure(<<0, 0>>, "ok", AllGoes)
    \/ ~app.resizing /\ \E p \in EdgePoints \cup {LowerMiddle} : Motion(p[1], p[2])
    \/ app.resizing /\ \E p \in {Centre, FarOutside, FarBefore} : Motion(p[1], p[2])
    \/ (app.menu_state = "Visible" \/ app.pointer_pos \in EdgePoints)
         /\ Press(BTN_LEFT, AllGoes, MaxResizeGestures)
    \/ app.pointer_pos = LowerMiddle /\ ~app.resizing
         /\ Press(BTN_RIGHT, AllGoes, MaxResizeGestures)
    \/ Release(BTN_LEFT, AllGoes)

SpecResize == InitResize /\ [][NextResize]_vars

---------------------------------------------------------------------------
(* SpecClick: presses at chosen distances and delays from the previous one *)

\* positions 9, 10 and 11 pixels from Centre
NineAway == <<209, 60>>
TenAway == <<206, 68>>
ElevenAway == <<211, 60>>
ClickPoints == {Centre, NineAway, TenAway, ElevenAway}

\* delays between two events, in ms
TickSteps == {1, DOUBLE_CLICK_THRESHOLD_MS - 1, DOUBLE_CLICK_THRESHOLD_MS,
              DOUBLE_CLICK_THRESHOLD_MS + 1}

InitClick == InitWith(Images, {FullHd}, {OPACITY_MAX}, {FALSE})

NextClick ==
    \/ Configure(<<0, 0>>, "ok", AllGoes)
    \/ \E d \in TickSteps : Tick(d)
    \/ \E p \in ClickPoints : Motion(p[1], p[2])
    \/ Press(BTN_LEFT, AllGoes, MaxClickGestures)
    \/ Release(BTN_LEFT, AllGoes)

SpecClick == InitClick /\ [][NextClick]_vars

---------------------------------------------------------------------------
(* SpecMenu: the context menu opened, clicked on and clicked next to       *)

\* a position inside the image: over the Close row of a menu opened there,
\* and beside a menu opened at LeftEdge or at the origin
OnClose == <<220, 80>>
MenuPoints == {LeftEdge, OnClose}

InitMenu == InitWith(Images, {FullHd}, {OPACITY_MAX}, {FALSE})

NextMenu ==
    \/ Configure(<<0, 0>>, "ok", AllGoes)
    \/ Leave
    \/ \E p \in MenuPoints : Motion(p[1], p[2])
    \/ \E button \in {BTN_LEFT, BTN_RIGHT} : Press(button, AllGoes, MaxMenuGestures)

SpecMenu == InitMenu /\ [][NextMenu]_vars

---------------------------------------------------------------------------
(* SpecOpacity: scroll notches and the menu's opacity items, from every     *)
(* kind of opacity the command line accepts                                *)

\* values --opacity accepts: 0.0, 0.05, 0.1, 0.5 and 1.0
CliOpacities == {0, OPACITY_STEP, OPACITY_MIN, F32_HALF, OPACITY_MAX}

\* positions over the Opacity+ and Opacity- rows of a menu opened at either
OnOpacityUp == <<220, 130>>
OnOpacityDown == <<220, 155>>
OpacityPoints == {OnOpacityUp, OnOpacityDown}

InitOpacity == InitWith(Images, {FullHd}, CliOpacities, {FALSE})

NextOpacity ==
    \/ Configure(<<0, 0>>, "ok", AllGoes)
    \/ \E vertical \in {-1, 0, 1} : Axis(vertical, AllGoes)
    \/ \E p \in OpacityPoints : Motion(p[1], p[2])
    \/ app.pointer_pos \in OpacityPoints /\ Press(BTN_RIGHT, AllGoes, 0)
    \/ app.menu_state = "Visible" /\ Press(BTN_LEFT, AllGoes, 0)

SpecOpacity == InitOpacity /\ [][NextOpacity]_vars

---------------------------------------------------------------------------
(* SpecExit: every way the event loop of run() can end, with collaborators  *)
(* that may fail at any draw                                               *)

InitExit == InitWith(Images, {FullHd}, {OPACITY_MAX}, {TRUE, FALSE})

NextExit ==
    \/ \E g \in GpuInitAnswers, o \in DrawAnswers : Configure(<<0, 0>>, g, o)
    \/ Closed
    \/ \E keysym \in KeySyms : PressKey(keysym)
    \/ DispatchError
    \/ \E button \in {BTN_LEFT, BTN_RIGHT}, o \in DrawAnswers :
           Press(button, o, MaxExitGestures)

SpecExit == InitExit /\ [][NextExit]_vars

---------------------------------------------------------------------------
(* SpecCache: software redraws around a scale-mode toggle and a resize     *)

InitCache == InitWith(Images, {FullHd}, {OPACITY_MAX}, {FALSE})

NextCache ==
    \/ Configure(<<0, 0>>, "ok", AllGoes)
    \/ \E p \in {LeftEdge, LowerMiddle} : Motion(p[1], p[2])
    \/ \E button \in {BTN_LEFT, BTN_RIGHT} : Press(button, AllGoes, MaxCacheGestures)
    \/ Release(BTN_LEFT, AllGoes)
    \/ Axis(1, AllGoes)

SpecCache == InitCache /\ [][NextCache]_vars

\* Surface configures that suggest a size: nothing, a width below MIN_SIZE,
\* a size that fits, a height beyond the display
ConfigureSizes == {<<0, 0>>, <<30, 0>>, <<300, 150>>, <<0, 5000>>}

InitConfigure == InitWith(Images, {FullHd}, {OPACITY_MAX}, {FALSE})

NextConfigure ==
    \/ \E n \in ConfigureSizes : Configure(n, "ok", AllGoes)
    \/ \E p \in {Centre, RightEdge} : Motion(p[1], p[2])
    \/ Press(BTN_LEFT, AllGoes, MaxConfigureGestures)
    \/ Release(BTN_LEFT, AllGoes)

SpecConfigure == InitConfigure /\ [][NextConfigure]_vars

---------------------------------------------------------------------------
(* SpecHitTest: the menu hit test at points in and around the menu         *)

\* a 500x300 image is shown at its own size and has room for a menu anchored
\* at (100,100)
WideImages == {<<500, 300>>}

\* the anchor, points on items 0 and 1, a point far off, and points on both
\* sides of each border of a menu anchored at (100,100)
HitPoints == {<<100, 100>>, <<150, 112>>, <<150, 137>>, <<300, 300>>,
              <<99, 112>>, <<279, 112>>, <<280, 112>>,
              <<150, 99>>, <<150, 224>>, <<150, 225>>}

InitHitTest == InitWith(WideImages, {FullHd}, {OPACITY_MAX}, {FALSE})

NextHitTest ==
    \/ ~app.configured /\ Configure(<<0, 0>>, "ok", AllGoes)
    \/ \E p \in HitPoints : Motion(p[1], p[2])
    \/ Press(BTN_RIGHT, AllGoes, 0)
    \/ IsSome(get_menu_item_at(app, app.pointer_pos[1], app.pointer_pos[2]))
         /\ Press(BTN_LEFT, AllGoes, 0)

SpecHitTest == InitHitTest /\ [][NextHitTest]_vars

---------------------------------------------------------------------------
(* SpecPyramid: the pyramid built at load time, for base images of many    *)
(* sizes, and the redraws that sample it                                   *)

\* base images around each threshold of generate_mipmaps: an edge of 64 or
\* less, edges of 65 to 129, the 512x512 image, odd edges, unequal edges, and
\* images large enough for eight levels and for more
PyramidImages ==
    {<<32, 32>>, <<64, 64>>, <<64, 4096>>, <<4096, 64>>, <<65, 65>>,
     <<65, 4096>>, <<127, 127>>, <<128, 128>>, <<129, 131>>, <<512, 512>>,
     <<513, 301>>, <<1000, 700>>, <<1023, 2047>>, <<4096, 4096>>,
     <<8320, 8320>>, <<16639, 16640>>, <<16640, 16640>>, <<20000, 17000>>}

\* sizes a configure suggests for the viewport
PyramidSizes == {<<0, 0>>, <<64, 64>>, <<300, 300>>, <<0, 50>>, <<700, 0>>}

InitPyramid == InitWith(PyramidImages, {FullHd}, {OPACITY_MAX}, {FALSE})

NextPyramid ==
    \/ \E n \in PyramidSizes : Configure(n, "ok", AllGoes)
    \/ \E p \in {Centre} : Motion(p[1], p[2])

SpecPyramid == InitPyramid /\ [][NextPyramid]_vars

---------------------------------------------------------------------------
(* SpecGpu: a session that asks for the hardware backend, whose            *)
(* initialization and whose every draw may fail                            *)

InitGpu == InitWith(Images, {FullHd}, {OPACITY_MAX}, {TRUE})

NextGpu ==
    \/ \E g \in GpuInitAnswers, o \in DrawAnswers : Configure(<<0, 0>>, g, o)
    \/ \E p \in {Centre} : Motion(p[1], p[2])
    \/ \E button \in {BTN_LEFT, BTN_RIGHT}, o \in DrawAnswers : Press(button, o, 0)

SpecGpu == InitGpu /\ [][NextGpu]_vars

---------------------------------------------------------------------------
(* SpecSnapshot: gestures interleaved with scrolls, configures and the     *)
(* clock                                                                   *)

InitSnapshot == InitWith(Images, {FullHd}, {OPACITY_MAX}, {FALSE})

NextSnapshot ==
    \/ Configure(<<0, 0>>, "ok", AllGoes)
    \/ Tick(MIN_FRAME_INTERVAL_MS)
    \/ \E p \in {LeftEdge, LowerMiddle} : Motion(p[1], p[2])
    \/ Press(BTN_LEFT, AllGoes, MaxSnapshotGestures)
    \/ Release(BTN_LEFT, AllGoes)
    \/ Axis(1, AllGoes)

SpecSnapshot == InitSnapshot /\ [][NextSnapshot]_vars

\* interpolated source pixels <<r, g, b, a>>, from transparent to opaque
SourcePixels == {<<9, 200, 31, a>> : a \in {0, 1, 3, 127, 128, 200, 254, 255}}

---------------------------------------------------------------------------
(* SpecClipboard: the menu's Copy item under every answer of the file       *)
(* system and of the clipboard utilities                                   *)

\* a menu opened at (100, 100): its corner, the Close row and the Copy row
MenuCorner == <<100, 100>>
OnCloseRow == <<150, 112>>
OnCopy == <<150, 137>>

InitClipboard ==
    InitFrom(WideImages, {FullHd}, {OPACITY_MAX}, {FALSE}, ClipboardAnswers, BOOLEAN)

NextClipboard ==
    \/ ~app.configured /\ Configure(<<0, 0>>, "ok", AllGoes)
    \/ \E p \in {MenuCorner, OnCloseRow, OnCopy} : Motion(p[1], p[2])
    \/ Press(BTN_RIGHT, AllGoes, 0)
    \/ IsSome(get_menu_item_at(app, app.pointer_pos[1], app.pointer_pos[2]))
          /\ Press(BTN_LEFT, AllGoes, 0)

SpecClipboard == InitClipboard /\ [][NextClipboard]_vars

---------------------------------------------------------------------------
(* SpecEdge: primary presses on every edge and corner of the viewport, and  *)
(* the resizes they start                                                  *)

InitEdge == InitWith(Images, {FullHd}, {OPACITY_MAX}, {FALSE})

NextEdge ==
    \/ ~app.configured /\ Configure(<<0, 0>>, "ok", AllGoes)
    \/ ~app.resizing /\ \E p \in EdgePoints \cup {Centre} : Motion(p[1], p[2])
    \/ app.resizing /\ \E p \in {Centre, FarOutside} : Motion(p[1], p[2])
    \/ app.pointer_pos \in EdgePoints /\ Press(BTN_LEFT, AllGoes, MaxEdgeGestures)
    \/ Release(BTN_LEFT, AllGoes)

SpecEdge == InitEdge /\ [][NextEdge]_vars

---------------------------------------------------------------------------
(* SpecStartup: what run() can handle before and around the first          *)
(* configure, with collaborators that may fail                             *)

InitStartup == InitWith(Images, {FullHd}, {OPACITY_MAX}, {TRUE, FALSE})

NextStartup ==
    \/ \E n \in ConfigureSizes, g \in GpuInitAnswers, o \in DrawAnswers : Configure(n, g, o)
    \/ \E o \in DrawAnswers : Frame(o)
    \/ \E keysym \in KeySyms : PressKey(keysym)
    \/ Motion(Centre[1], Centre[2])

SpecStartup == InitStartup /\ [][NextStartup]_vars

---------------------------------------------------------------------------
(* Claims                                                                  *)

\* C1: after any Motion handled while Resizing, the viewport is at least
\* MIN_SIZE and at most MAX_SIZE on each axis, and its buffer of
\* width*height*4 bytes is at most MAX_BUFFER_SIZE.
C1_ResizeWithinLimits ==
    (ev.kind = "Motion" /\ ev.was_resizing) =>
        /\ MIN_SIZE <= app.width /\ app.width <= MAX_SIZE
        /\ MIN_SIZE <= app.height /\ app.height <= MAX_SIZE
        /\ app.width * app.height * 4 <= MAX_BUFFER_SIZE

\* a free-scale resize dragged far out on the large display ends at the
\* largest viewport there is, whose buffer is exactly MAX_BUFFER_SIZE
C1_Witness ==
    /\ ev.kind = "Motion" /\ ev.was_resizing
    /\ app.scale_mode = "FreeScale"
    /\ app.width = MAX_SIZE /\ app.height = MAX_SIZE

\* C2: at most one manipulation is active in every reachable state: dragging
\* and resizing are never both true.
C2_OneManipulation == ~(app.dragging /\ app.resizing)

\* C3: with the menu hidden, a primary press signals exit if and only if a
\* previous primary press is recorded less than 300 ms before it and less
\* than 10 px away; otherwise the press starts a gesture.
C3_DoubleClickExits ==
    [][(ev'.kind = "Press" /\ ev'.arg = BTN_LEFT /\ ~ev'.was_menu) =>
          LET dx == app.pointer_pos[1] - app.last_click_pos[1]
              dy == app.pointer_pos[2] - app.last_click_pos[2]
              recent == /\ IsSome(app.last_click_time)
                        /\ Unwrap(app.last_click_time) < DOUBLE_CLICK_THRESHOLD_MS
              near == dx * dx + dy * dy < 10 * 10
          IN  /\ app'.should_exit <=> (recent /\ near)
              /\ ~app'.should_exit =>
                    /\ gestures' = gestures + 1
                    /\ app'.dragging \/ app'.resizing]_vars

\* a second press 9 px away and 299 ms after the first has ended the run
C3_Witness ==
    /\ ev.kind = "Press" /\ ev.arg = BTN_LEFT /\ ~ev.was_menu
    /\ app.should_exit /\ pc = "exited"
    /\ app.last_click_time = Some(DOUBLE_CLICK_THRESHOLD_MS - 1)
    /\ app.last_click_pos = Centre /\ app.pointer_pos = NineAway

\* C4: a primary press received while the menu is visible hides the menu and
\* never enters Dragging or Resizing, whether or not it hits a menu item.
C4_MenuClickOnly ==
    [][(ev'.kind = "Press" /\ ev'.arg = BTN_LEFT /\ ev'.was_menu) =>
          /\ app'.menu_state = "Hidden"
          /\ app'.dragging => app.dragging
          /\ app'.resizing => app.resizing]_vars

\* C5: a primary Release always leaves dragging = false, resizing = false and
\* resize_edge = None.  If the state was Resizing, the release drops the
\* cache entry and redraws in the same step by resampling at full quality
\* (never the fast path, never the cache); if it was not, the release draws
\* nothing and leaves the cache entry alone.
C5_ReleaseToIdle ==
    [][(ev'.kind = "Release" /\ ev'.arg = BTN_LEFT) =>
          /\ ~app'.dragging /\ ~app'.resizing /\ app'.resize_edge = "None"
          /\ app.resizing =>
                /\ ev'.drawn \in {"quality", "gpu"}
                /\ frame' = [path |-> ev'.drawn, width |-> app'.width,
                             height |-> app'.height, opacity |-> app'.opacity,
                             age |-> 0]
                /\ ~app'.needs_redraw
                /\ app'.cached_scaled_image \in {None, Some(<<app'.width, app'.height>>)}
                /\ app.cached_scaled_size = <<app'.width, app'.height>>
                      => app'.cached_scaled_image = None
          /\ ~app.resizing =>
                /\ ev'.drawn = "none"
                /\ frame' = frame
                /\ app'.cached_scaled_image = app.cached_scaled_image
                /\ app'.needs_redraw = app.needs_redraw]_vars

\* a resize that ended at the size the cache entry was made for: the release
\* dropped the entry and resampled on the software path
C5_Witness ==
    /\ ev.kind = "Release" /\ ev.arg = BTN_LEFT /\ ev.was_resizing
    /\ ev.drawn = "quality"
    /\ app.cached_scaled_image = None
    /\ app.cached_scaled_size = <<app.width, app.height>>
    /\ ~app.resizing /\ app.resize_edge = "None"

\* C6: a Leave sets dragging and resizing to false and changes nothing else:
\* every other field of the state, the frame on the surface and the
\* position of the event loop are as before, and nothing is drawn.
C6_LeaveOnlyCancels ==
    [][ev'.kind = "Leave" =>
          /\ ~app'.dragging /\ ~app'.resizing
          /\ app' = [app EXCEPT !.dragging = app'.dragging,
                                !.resizing = app'.resizing]
          /\ ev'.drawn = "none"
          /\ frame' = frame
          /\ pc' = pc]_vars

\* a Leave has cancelled a moved resize while the menu was open: the edge,
\* the pending redraw and the menu are as the resize left them
C6_Witness ==
    /\ ev.kind = "Leave" /\ ev.was_resizing /\ ev.was_menu
    /\ ~app.resizing /\ ~app.dragging
    /\ app.resize_edge = "Left"
    /\ app.menu_state = "Visible"
    /\ app.needs_redraw
    /\ IsSome(app.cached_scaled_image)

\* C7: opacity lies in [0.1, 1.0] in every reachable state, from startup
\* with any opacity the command line accepts.
C7_OpacityInRange == OPACITY_MIN <= app.opacity /\ app.opacity <= OPACITY_MAX

\* C8: a vertical scroll with a non-zero axis value moves opacity by one step
\* of 0.05 clamped to [0.1, 1.0] (in f32, to within f32::EPSILON): up for a
\* negative value, down for a positive one; a zero value changes nothing and
\* draws nothing; from 0.50 one increase gives 0.55; and from 0.10 or above
\* no decrease ends below 0.10.
C8_ScrollStep ==
    [][ev'.kind = "Axis" =>
          LET step == IF ev'.arg < 0 THEN OPACITY_STEP ELSE -OPACITY_STEP
              target == Clamp(RoundF32(app.opacity + step), OPACITY_MIN, OPACITY_MAX)
          IN  /\ ev'.arg = 0 => app' = app /\ frame' = frame /\ ev'.drawn = "none"
              /\ ev'.arg # 0 =>
                    /\ Abs(app'.opacity - target) <= F32_EPSILON
                    /\ app' = [app EXCEPT !.opacity = app'.opacity,
                                          !.needs_redraw = app'.needs_redraw,
                                          !.pool = app'.pool,
                                          !.cached_scaled_image = app'.cached_scaled_image,
                                          !.cached_scaled_size = app'.cached_scaled_size]
                    /\ frame'.opacity = app'.opacity
              /\ (ev'.arg < 0 /\ app.opacity = F32_HALF) => app'.opacity = 147639504
              /\ (ev'.arg < 0 /\ app.opacity <= OPACITY_MAX) => app'.opacity >= app.opacity
              /\ (ev'.arg > 0 /\ app.opacity >= OPACITY_MIN) =>
                    /\ app'.opacity <= app.opacity
                    /\ app'.opacity >= OPACITY_MIN]_vars

\* one notch up from 0.50 has been drawn at 0.55
C8_Witness ==
    /\ ev.kind = "Axis" /\ ev.arg = -1 /\ ev.drawn # "none"
    /\ app.opacity = 147639504
    /\ frame.opacity = app.opacity

\* C9: the event loop ends only after should_exit is set, and that by a
\* double-click or the menu's Close (a press), an Escape or q key press, or
\* the surface's closed notification; nothing else ends the process.
C9_ExitOnlyBySignal ==
    pc # "running" =>
        /\ pc = "exited"
        /\ app.should_exit
        /\ ev.kind \in {"Press", "Key", "Closed"}

\* C10: of two consecutive non-resizing software redraws at the same output
\* size, the second is served from the cache and does not resample.  The
\* second redraw is one that a scroll or a configure asks for, the first is
\* whichever redraw came before it.
C10_SecondRedrawFromCache ==
    [][(/\ ev'.kind \in {"Axis", "Configure"}
        /\ ev'.drawn \in {"quality", "cache"}
        /\ frame.path \in {"quality", "cache"}
        /\ frame'.width = frame.width /\ frame'.height = frame.height)
          => ev'.drawn = "cache"]_vars

\* C11: every redraw through the fast path (a software redraw while
\* Resizing) invalidates the render cache: after it the cache holds no entry.
C11_FastPathInvalidates ==
    ev.drawn = "fast" => app.cached_scaled_image = None

\* C12: while Resizing no two frames are rendered less than 25 ms apart,
\* whichever event triggers the redraw: a frame of the resize is rendered
\* only when the frame before it, if that was one of a resize too, is at
\* least 25 ms old.
C12_ResizeThrottled ==
    [][(ev'.drawn = "fast" /\ frame.path = "fast")
          => frame.age >= MIN_FRAME_INTERVAL_MS]_vars

\* C13: after a Motion during Resizing the margins agree with the final size:
\* for an edge that moves the left side margin_left + width is what it was when
\* the gesture started, and for an edge that moves the top side margin_top +
\* height is what it was when the gesture started, also when the size was
\* clamped.
C13_MarginsFollowFinalSize ==
    [][(app.resizing /\ ev'.kind = "Motion")
          => /\ app.resize_edge \in {"Left", "TopLeft", "BottomLeft"}
                  => app'.margin_left + app'.width
                       = app.resize_start_margin[1] + app.resize_start_size[1]
             /\ app.resize_edge \in {"Top", "TopLeft", "TopRight"}
                  => app'.margin_top + app'.height
                       = app.resize_start_margin[2] + app.resize_start_size[2]]_vars

\* C14: after a Motion while Resizing from the Right edge in KeepAspectRatio
\* mode the final height is the final width divided by the image's aspect
\* ratio, rounded, within 1 px.
C14_RightEdgeKeepsRatio ==
    [][(app.resizing /\ app.resize_edge = "Right"
          /\ app.scale_mode = "KeepAspectRatio" /\ ev'.kind = "Motion")
          => LET ideal == (2 * app'.width * app.image[2] + app.image[1])
                            \div (2 * app.image[1])
             IN  Abs(app'.height - ideal) <= 1]_vars

\* C15 (as stated): a configure received while Dragging or Resizing leaves
\* width and height unchanged, and a configure received while Idle adopts each
\* suggested dimension that is greater than zero.
C15_ConfigureAdoptsWhenIdle ==
    [][\A n \in ConfigureSizes :
          Configure(n, "ok", AllGoes)
             => IF app.dragging \/ app.resizing
                THEN app'.width = app.width /\ app'.height = app.height
                ELSE /\ n[1] > 0 => app'.width = n[1]
                     /\ n[2] > 0 => app'.height = n[2]]_vars

\* C15 (amended): a configure received while Dragging or Resizing leaves width
\* and height unchanged; a configure received while Idle adopts each suggested
\* dimension that is greater than zero, limited to at least MIN_SIZE and at
\* most the display's extent (itself held within MIN_SIZE and MAX_SIZE), and
\* keeps, within the same limits, a dimension for which nothing is suggested.
C15_ConfigureAdoptsWithinLimits ==
    [][\A n \in ConfigureSizes :
          Configure(n, "ok", AllGoes)
             => IF app.dragging \/ app.resizing
                THEN app'.width = app.width /\ app'.height = app.height
                ELSE LET max_width == Min(Max(app.display_width, MIN_SIZE), MAX_SIZE)
                         max_height == Min(Max(app.display_height, MIN_SIZE), MAX_SIZE)
                         want_w == IF n[1] > 0 THEN n[1] ELSE app.width
                         want_h == IF n[2] > 0 THEN n[2] ELSE app.height
                     IN  /\ app'.width = Clamp(want_w, MIN_SIZE, max_width)
                         /\ app'.height = Clamp(want_h, MIN_SIZE, max_height)]_vars

\* a size-suggesting configure was handled during a gesture, after one that
\* was handled while idle had changed the size
C15_Witness ==
    /\ ev.kind = "Configure"
    /\ ev.was_dragging \/ ev.was_resizing
    /\ <<app.width, app.height>> = <<300, 150>>

\* C16: after a secondary-button press the menu is visible and its rectangle,
\* MENU_WIDTH wide and MENU_ITEM_COUNT items high, lies inside the viewport.
C16_MenuInsideViewport ==
    (ev.kind = "Press" /\ ev.arg = BTN_RIGHT)
       => /\ app.menu_state = "Visible"
          /\ 0 <= app.menu_pos[1]
          /\ app.menu_pos[1] + MENU_WIDTH <= app.width
          /\ 0 <= app.menu_pos[2]
          /\ app.menu_pos[2] + MENU_ITEM_COUNT * MENU_ITEM_HEIGHT <= app.height

\* C17: the menu hit test at the pointer returns floor((y - anchor_y) / 25)
\* exactly when the menu is visible and the point lies in
\* [anchor_x, anchor_x + 180) x [anchor_y, anchor_y + 125), and none otherwise;
\* with the anchor at (100,100), (150,112) gives 0, (150,137) gives 1 and
\* (300,300) gives none.
C17_MenuHitTest ==
    LET x == app.pointer_pos[1]
        y == app.pointer_pos[2]
        anchor_x == app.menu_pos[1]
        anchor_y == app.menu_pos[2]
        hit == get_menu_item_at(app, x, y)
        inside == /\ app.menu_state = "Visible"
                  /\ anchor_x <= x /\ x < anchor_x + 180
                  /\ anchor_y <= y /\ y < anchor_y + 125
    IN  /\ IF inside THEN hit = Some((y - anchor_y) \div 25) ELSE hit = None
        /\ (app.menu_state = "Visible" /\ app.menu_pos = <<100, 100>>)
              => /\ get_menu_item_at(app, 150, 112) = Some(0)
                 /\ get_menu_item_at(app, 150, 137) = Some(1)
                 /\ get_menu_item_at(app, 300, 300) = None

\* the pointer moved to (150,137) over a menu anchored at (100,100), and the
\* hit test made item 1 the hovered one
C17_Witness ==
    /\ ev.kind = "Motion"
    /\ app.menu_state = "Visible"
    /\ app.menu_pos = <<100, 100>>
    /\ app.pointer_pos = <<150, 137>>
    /\ app.menu_hover_item = Some(1)

\* C18: whenever the menu is visible, each of the five menu actions returns
\* with the menu hidden and the redraw flag set, also when the action changed
\* nothing; and after a primary press on a visible menu the menu is hidden and
\* the redraw that was flagged has been rendered.
C18_ActionHidesAndRedraws ==
    /\ app.menu_state = "Visible"
          => \A item \in 0 .. MENU_ITEM_COUNT - 1 :
                LET t == handle_menu_action(app, item)
                IN  t.menu_state = "Hidden" /\ t.needs_redraw
    /\ (ev.kind = "Press" /\ ev.arg = BTN_LEFT /\ ev.was_menu)
          => app.menu_state = "Hidden" /\ ev.drawn # "none"

\* Opacity+ was selected at full opacity: nothing changed, the menu is hidden
\* and a frame was rendered
C18_Witness ==
    /\ ev.kind = "Press" /\ ev.arg = BTN_LEFT /\ ev.was_menu
    /\ app.pointer_pos = OnOpacityUp
    /\ app.opacity = OPACITY_MAX
    /\ frame.opacity = OPACITY_MAX
    /\ app.menu_state = "Hidden"
    /\ ev.drawn # "none"

\* C19: the menu has exactly five items, Close, Copy, Opacity+, Opacity- and
\* Toggle-Scale-Mode in this order, each at the index whose selection performs
\* it; the fifth label is 'Scale: Free' exactly when the mode is
\* KeepAspectRatio and 'Scale: Keep Ratio' exactly when it is FreeScale, which
\* is the mode that selecting it produces; selecting it twice restores the
\* mode.
C19_MenuItems ==
    LET items == get_menu_items(app)
        label == items[MENU_ITEM_SCALE_MODE + 1]
        once == handle_menu_action(app, MENU_ITEM_SCALE_MODE)
        twice == handle_menu_action(once, MENU_ITEM_SCALE_MODE)
    IN  /\ Len(items) = 5
        /\ items[MENU_ITEM_CLOSE + 1] = "Close"
        /\ handle_menu_action(app, MENU_ITEM_CLOSE).should_exit
        /\ items[MENU_ITEM_COPY + 1] = "Copy to Clipboard"
        /\ items[MENU_ITEM_OPACITY_UP + 1] = "Opacity +"
        /\ handle_menu_action(app, MENU_ITEM_OPACITY_UP).opacity >= app.opacity
        /\ items[MENU_ITEM_OPACITY_DOWN + 1] = "Opacity -"
        /\ app.opacity >= OPACITY_MIN
              => handle_menu_action(app, MENU_ITEM_OPACITY_DOWN).opacity <= app.opacity
        /\ MENU_ITEM_SCALE_MODE + 1 = 5
        /\ label = "Scale: Free" <=> app.scale_mode = "KeepAspectRatio"
        /\ label = "Scale: Keep Ratio" <=> app.scale_mode = "FreeScale"
        /\ label = "Scale: Free" <=> once.scale_mode = "FreeScale"
        /\ label = "Scale: Keep Ratio" <=> once.scale_mode = "KeepAspectRatio"
        /\ twice.scale_mode = app.scale_mode

\* the fifth item was selected in KeepAspectRatio mode: the mode is FreeScale
\* and the label now offers Keep Ratio
C19_Witness ==
    /\ ev.kind = "Press" /\ ev.arg = BTN_LEFT /\ ev.was_menu
    /\ app.menu_pos = <<100, 100>>
    /\ app.pointer_pos = <<150, 224>>
    /\ app.scale_mode = "FreeScale"
    /\ get_menu_items(app)[5] = "Scale: Keep Ratio"

\* C20: a Motion while Dragging sets margin_left and margin_top to exactly the
\* margin at the start of the drag plus the pointer's displacement from the
\* start position, per axis, with no clamping.
C20_DragFollowsPointer ==
    [][(app.dragging /\ ev'.kind = "Motion")
          => /\ app'.margin_left
                  = app.drag_start_margin[1]
                      + (app'.pointer_pos[1] - app.drag_start_pos[1])
             /\ app'.margin_top
                  = app.drag_start_margin[2]
                      + (app'.pointer_pos[2] - app.drag_start_pos[2])]_vars

\* C21: the pyramid of every base image has at most 8 levels, each level's
\* width and height are the floor of half those of the level before it (of the
\* base image for the first level), no level has a width or height below
\* 32 px, and an image with a dimension of 64 px or less has no levels.
C21_PyramidShape ==
    LET m == app.mipmaps
        Before(i) == IF i = 1 THEN app.image ELSE m[i - 1]
    IN  /\ Len(m) <= 8
        /\ \A i \in 1 .. Len(m) :
              /\ m[i][1] = Before(i)[1] \div 2
              /\ m[i][2] = Before(i)[2] \div 2
              /\ m[i][1] >= 32 /\ m[i][2] >= 32
        /\ (app.image[1] <= 64 \/ app.image[2] <= 64) => m = <<>>

\* a base image whose pyramid was cut off at eight levels although the last
\* level could be halved again, shown after its first redraw
C21_Witness ==
    /\ ev.kind = "Configure" /\ ev.drawn = "quality"
    /\ Len(app.mipmaps) = 8
    /\ app.mipmaps[8][1] > 64 /\ app.mipmaps[8][2] > 64

\* C22: the pyramid of a 512x512 base image has exactly two levels, 256x256
\* and 128x128.
C22_Pyramid512 ==
    app.image = <<512, 512>> => app.mipmaps = << <<256, 256>>, <<128, 128>> >>

\* C23: when the hardware backend is enabled and reports an error or a no-op
\* for a redraw, the same redraw submits a frame rendered by the software
\* path, and the hardware path stays enabled: the next redraw for which the
\* backend works is rendered by it.
C23_FallbackPerFrame ==
    [][\A g \in GpuInitAnswers, o \in DrawAnswers :
          (/\ o.gpu \in {"err", "noop"} /\ o.shm = "ok"
           /\ \/ /\ Configure(<<0, 0>>, g, o)
                 /\ ConfigureApp(app, <<0, 0>>, g).use_gpu
                 /\ ConfigureApp(app, <<0, 0>>, g).gpu_renderer
              \/ /\ Press(BTN_RIGHT, o, MaxExitGestures)
                 /\ app.use_gpu /\ app.gpu_renderer)
             => /\ ev'.drawn \in {"quality", "cache", "fast"}
                /\ frame'.path = ev'.drawn
                /\ app'.use_gpu /\ app'.gpu_renderer
                /\ draw(app', AllGoes).drawn = "gpu"]_vars

\* a redraw fell back to the software path with the hardware backend in place
C23_Witness ==
    /\ ev.kind \in {"Configure", "Press"}
    /\ ev.drawn = "quality"
    /\ app.use_gpu /\ app.gpu_renderer /\ app.gpu_initialized
    /\ frame.path = "quality"

\* C24: when the initialization of the hardware backend fails (null display
\* pointer, renderer construction error, texture upload error) use_gpu becomes
\* false and the session goes on; once use_gpu is false it stays false, no
\* later configure initializes a renderer, and no later redraw is rendered by
\* the hardware path.
C24_InitFailureDisables ==
    [][/\ \A g \in GpuInitAnswers \ {"ok"}, o \in DrawAnswers :
             (/\ app.use_gpu /\ ~app.gpu_initialized
              /\ Configure(<<0, 0>>, g, o))
                => /\ ~app'.use_gpu
                   /\ ~app'.gpu_renderer /\ ~app'.gpu_initialized
                   /\ ev'.drawn # "gpu"
                   /\ app'.should_exit = app.should_exit
                   /\ o.shm # "attach_fail" => pc' = "running"
       /\ ~app.use_gpu
             => /\ ~app'.use_gpu
                /\ ~app'.gpu_renderer /\ ~app'.gpu_initialized
                /\ ev'.drawn # "gpu"]_vars

\* the initialization failed at an earlier configure; a later configure has
\* been handled and its redraw went through the software path
C24_Witness ==
    /\ ev.kind = "Configure" /\ ev.drawn = "cache"
    /\ ~app.use_gpu /\ ~app.gpu_renderer /\ ~app.gpu_initialized
    /\ pc = "running"

\* C25: with the menu hidden and no double-click detected, a primary press
\* starts a resize when an edge or corner is detected at the pointer, with
\* that edge and a snapshot of the pointer position, the size and the margins;
\* otherwise it starts a drag with a snapshot of the pointer position and the
\* margins.
C25_PressStartsGesture ==
    [][(/\ ev'.kind = "Press" /\ ev'.arg = BTN_LEFT
        /\ app.menu_state = "Hidden"
        /\ ~is_double_click(app, app.pointer_pos[1], app.pointer_pos[2]))
          => IF detect_resize_edge(app, app.pointer_pos[1], app.pointer_pos[2]) # "None"
             THEN /\ app'.resizing
                  /\ app'.resize_edge
                       = detect_resize_edge(app, app.pointer_pos[1], app.pointer_pos[2])
                  /\ app'.resize_start_pos = app.pointer_pos
                  /\ app'.resize_start_size = <<app.width, app.height>>
                  /\ app'.resize_start_margin = <<app.margin_left, app.margin_top>>
             ELSE /\ app'.dragging
                  /\ app'.drag_start_pos = app.pointer_pos
                  /\ app'.drag_start_margin = <<app.margin_left, app.margin_top>>]_vars

\* a press 5 px from the left border started a resize from the Left edge of
\* the 400x200 viewport
C25_Witness ==
    /\ ev.kind = "Press" /\ ev.arg = BTN_LEFT /\ ~ev.was_resizing /\ ~ev.was_dragging
    /\ app.resizing /\ ~app.dragging
    /\ app.resize_edge = "Left"
    /\ app.resize_start_pos = LeftEdge
    /\ app.resize_start_size = <<400, 200>>

\* C26: during a gesture no event other than a press modifies the captured
\* start position, start size or start margins, and the geometry a Motion
\* leaves is the one it would leave had no Motion been handled since the
\* gesture started: it is computed from the snapshot.
C26_SnapshotImmutable ==
    [][/\ ((app.resizing \/ app.dragging) /\ ev'.kind # "Press")
             => /\ app'.resize_start_pos = app.resize_start_pos
                /\ app'.resize_start_size = app.resize_start_size
                /\ app'.resize_start_margin = app.resize_start_margin
                /\ app'.drag_start_pos = app.drag_start_pos
                /\ app'.drag_start_margin = app.drag_start_margin
       /\ ((app.resizing \/ app.dragging) /\ ev'.kind = "Motion")
             => LET at_start ==
                      IF app.resizing
                      THEN [app EXCEPT !.width = app.resize_start_size[1],
                                       !.height = app.resize_start_size[2],
                                       !.margin_left = app.resize_start_margin[1],
                                       !.margin_top = app.resize_start_margin[2]]
                      ELSE [app EXCEPT !.margin_left = app.drag_start_margin[1],
                                       !.margin_top = app.drag_start_margin[2]]
                    fresh == MotionApp(at_start, app'.pointer_pos[1], app'.pointer_pos[2])
                IN  /\ app'.width = fresh.width
                    /\ app'.height = fresh.height
                    /\ app'.margin_left = fresh.margin_left
                    /\ app'.margin_top = fresh.margin_top]_vars

\* a Motion of a resize from the Left edge has made the viewport narrower, and
\* the snapshot is still the 400x200 the gesture started from
C26_Witness ==
    /\ ev.kind = "Motion" /\ ev.was_resizing /\ app.resizing
    /\ app.resize_start_size = <<400, 200>>
    /\ app.resize_start_pos = LeftEdge
    /\ app.pointer_pos = LowerMiddle
    /\ app.width < 400

\* C27 (as stated): for every pointer position, edge detection returns a
\* corner exactly when the pointer is within 10 px of two adjacent borders, a
\* single edge exactly when it is within 10 px of one border only, and None
\* exactly when it is within 10 px of no border. Probed on both sides of every
\* threshold, inside and outside the viewport.
C27_EdgeDetection ==
    LET w == app.width
        h == app.height
        Xs == {-300, -1, 0, 9, 10, w - 11, w - 10, w - 9, w - 1, w, w + 9, w + 10, w + 300}
        Ys == {-300, -1, 0, 9, 10, h - 11, h - 10, h - 9, h - 1, h, h + 9, h + 10, h + 300}
        Within(d) == Abs(d) < 10
        Expected(x, y) ==
            LET l == Within(x)
                r == Within(w - x)
                t == Within(y)
                b == Within(h - y)
            IN  IF l /\ t THEN "TopLeft"
                ELSE IF r /\ t THEN "TopRight"
                ELSE IF l /\ b THEN "BottomLeft"
                ELSE IF r /\ b THEN "BottomRight"
                ELSE IF l THEN "Left"
                ELSE IF r THEN "Right"
                ELSE IF t THEN "Top"
                ELSE IF b THEN "Bottom"
                ELSE "None"
    IN  (w >= MIN_SIZE /\ h >= MIN_SIZE)
           => \A x \in Xs, y \in Ys : detect_resize_edge(app, x, y) = Expected(x, y)

\* C27 (amended): for every pointer position inside the viewport, edge
\* detection returns a corner exactly when the pointer is within 10 px of two
\* adjacent borders, a single edge exactly when it is within 10 px of one
\* border only, and None exactly when it is within 10 px of no border.
C27_EdgeDetectionInside ==
    LET w == app.width
        h == app.height
        Xs == {0, 9, 10, w \div 2, w - 11, w - 10, w - 9, w - 1}
        Ys == {0, 9, 10, h \div 2, h - 11, h - 10, h - 9, h - 1}
        Within(d) == 0 <= d /\ d < 10
        Expected(x, y) ==
            LET l == Within(x)
                r == Within(w - x)
                t == Within(y)
                b == Within(h - y)
            IN  IF l /\ t THEN "TopLeft"
                ELSE IF r /\ t THEN "TopRight"
                ELSE IF l /\ b THEN "BottomLeft"
                ELSE IF r /\ b THEN "BottomRight"
                ELSE IF l THEN "Left"
                ELSE IF r THEN "Right"
                ELSE IF t THEN "Top"
                ELSE IF b THEN "Bottom"
                ELSE "None"
    IN  /\ w >= MIN_SIZE /\ h >= MIN_SIZE
        /\ \A x \in Xs, y \in Ys : detect_resize_edge(app, x, y) = Expected(x, y)
        /\ (ev.kind = "Press" /\ ev.arg = BTN_LEFT /\ app.resizing /\ ~ev.was_resizing
            /\ app.pointer_pos[1] \in 0 .. w - 1 /\ app.pointer_pos[2] \in 0 .. h - 1)
              => app.resize_edge = Expected(app.pointer_pos[1], app.pointer_pos[2])

\* a press 5 px from the top and 5 px from the right border of the viewport
\* started a resize from the TopRight corner
C27_Witness ==
    /\ ev.kind = "Press" /\ ev.arg = BTN_LEFT /\ ~ev.was_resizing
    /\ app.resizing /\ app.resize_edge = "TopRight"
    /\ app.pointer_pos = TopRightCorner

\* C28: on the quality path the base image is sampled when the required ratio
\* min(width/image width, height/image height) is at least 0.7 or the pyramid
\* is empty; otherwise the buffer sampled is the base image or a level of the
\* pyramid, and below 0.7 with a pyramid it is not smaller than the ratio
\* requires: its width is at least the required ratio times the base width.
C28_SourceNotSmaller ==
    ev.drawn = "quality"
       => LET source == QualitySource(app.image, app.mipmaps, app.width, app.height)
              by_x == FracLess(app.width, app.image[1], app.height, app.image[2])
              ratio_n == IF by_x THEN app.width ELSE app.height
              ratio_d == IF by_x THEN app.image[1] ELSE app.image[2]
          IN  /\ (~FracLess(ratio_n, ratio_d, 7, 10) \/ app.mipmaps = <<>>)
                    => source = app.image
              /\ source = app.image \/ \E i \in 1 .. Len(app.mipmaps) : source = app.mipmaps[i]
              /\ (FracLess(ratio_n, ratio_d, 7, 10) /\ app.mipmaps # <<>>)
                    => ~FracLess(source[1], app.image[1], ratio_n, ratio_d)

\* C29: a frame drawn on the quality path or from the cache gives every
\* source pixel the alpha round(src_alpha / 255 * opacity * 255), the product
\* rounded to the nearest integer, and its colour channels unchanged; the
\* cache holds the pixels rendered at opacity 1.0.
C29_AlphaRounded ==
    \A p \in SourcePixels :
        /\ frame.path = "quality"
              => render_pixel_static(p, frame.opacity)
                    = <<p[1], p[2], p[3], F32RoundAsU8(ScaledAlpha(p[4], frame.opacity))>>
        /\ frame.path = "cache"
              => LET cached == render_pixel_static(p, OPACITY_MAX)
                 IN  apply_opacity_to_canvas(cached, frame.opacity)
                        = <<cached[1], cached[2], cached[3],
                            F32RoundAsU8(ScaledAlpha(cached[4], frame.opacity))>>

\* C30: when the handler of an event has run the Copy action, then, the image
\* once saved, it tried the secondary utility (xclip) if and only if the
\* first one (wl-copy) was unavailable; and the temporary file does not exist
\* afterwards, whatever the outcome of saving the image and of the utilities.
C30_FallbackAndCleanup ==
    clipboard.copied
       => /\ clipboard.answers.save = "ok"
                => ((\E i \in 1 .. Len(clipboard.tried) : clipboard.tried[i] = "xclip")
                       <=> clipboard.answers.wl_copy = "unavailable")
          /\ ~clipboard.file

\* C31: a buffer held by the render cache was rendered at the size recorded in
\* cached_scaled_size (so it has cached width * cached height * 4 bytes); a
\* buffer enters the cache only in a redraw on the quality path, rendered at
\* the size of that frame, never in a fast-path redraw; and a frame served
\* from the cache has the size the cached buffer was rendered at.
C31_CacheHoldsQualityRender ==
    [][/\ IsSome(app'.cached_scaled_image)
             => Unwrap(app'.cached_scaled_image) = app'.cached_scaled_size
       /\ (IsSome(app'.cached_scaled_image)
           /\ app'.cached_scaled_image # app.cached_scaled_image)
             => /\ ev'.drawn = "quality"
                /\ Unwrap(app'.cached_scaled_image) = <<frame'.width, frame'.height>>
       /\ ev'.drawn = "fast" => app'.cached_scaled_image \in {None, app.cached_scaled_image}
       /\ ev'.drawn = "cache"
             => /\ app.cached_scaled_image = Some(<<frame'.width, frame'.height>>)
                /\ app'.cached_scaled_image = app.cached_scaled_image]_vars

\* a frame was served from the cache after a resize had changed the size and
\* a later quality redraw had refilled the cache at the new size
C31_Witness ==
    /\ ev.drawn = "cache"
    /\ frame.path = "cache"
    /\ IsSome(app.cached_scaled_image)
    /\ app.cached_scaled_size # <<400, 200>>
    /\ app.cached_scaled_size = <<app.width, app.height>>

\* C32: whenever the context menu is visible no manipulation is active:
\* neither dragging nor resizing is true, so no Motion moves or resizes the
\* window while the menu is shown.
C32_MenuExcludesManipulation ==
    app.menu_state = "Visible" => ~app.dragging /\ ~app.resizing

\* C33: whenever the context menu is visible, menu_hover_item equals the hit
\* test of the current pointer position against the current menu rectangle.
C33_HoverIsHitTest ==
    app.menu_state = "Visible"
       => app.menu_hover_item
             = get_menu_item_at(app, app.pointer_pos[1], app.pointer_pos[2])

\* C34: a primary press received while the menu is visible signals exit only
\* when it hits the Close item, and it is not recorded as a click: the time
\* and position of the last click stay as they were, so it is neither the
\* first nor the second press of a double-click.
C34_MenuPressNoDoubleClick ==
    [][(ev'.kind = "Press" /\ ev'.arg = BTN_LEFT /\ ev'.was_menu /\ ~app.should_exit)
          => /\ app'.should_exit
                   => get_menu_item_at(app, app.pointer_pos[1], app.pointer_pos[2])
                         = Some(MENU_ITEM_CLOSE)
             /\ app'.last_click_time = app.last_click_time
             /\ app'.last_click_pos = app.last_click_pos]_vars

\* C35: a Motion during a resize whose position is the gesture's start
\* position (zero displacement) leaves width, height and both margins equal
\* to the snapshot taken at gesture entry, for every edge and scale mode.
C35_ZeroDisplacementKeepsSnapshot ==
    [][(ev'.kind = "Motion" /\ ev'.was_resizing /\ app'.resizing
        /\ app'.pointer_pos = app.resize_start_pos)
          => /\ <<app'.width, app'.height>> = app.resize_start_size
             /\ <<app'.margin_left, app'.margin_top>> = app.resize_start_margin]_vars

\* C36: the geometry after a Motion of a resize gesture depends only on the
\* gesture's snapshot, the scale mode, the display size and the pointer
\* position: the same Motion applied to a state that differs in the current
\* width, height and margins (what earlier Motions of the gesture left) and
\* in the time of the last resize redraw (what the throttle skipped) gives
\* the same width, height and margins.
C36_ResizePathIndependent ==
    [][(ev'.kind = "Motion" /\ app.resizing)
          => \A size \in {<<50, 50>>, <<400, 200>>, <<1234, 777>>},
                margin \in {<<0, 0>>, <<-50, 900>>},
                last \in {None, Some(0), Some(MIN_FRAME_INTERVAL_MS)} :
                LET other == [app EXCEPT !.width = size[1], !.height = size[2],
                                         !.margin_left = margin[1],
                                         !.margin_top = margin[2],
                                         !.last_resize_draw = last]
                    t == MotionApp(other, app'.pointer_pos[1], app'.pointer_pos[2])
                IN  <<t.width, t.height, t.margin_left, t.margin_top>>
                       = <<app'.width, app'.height, app'.margin_left, app'.margin_top>>]_vars

\* a Motion of a resize gesture that the throttle skipped (it arrived less
\* than 25 ms after the last resize redraw) has moved the pointer to the
\* centre, and the geometry is not the snapshot's
C36_Witness ==
    /\ ev.kind = "Motion" /\ ev.was_resizing /\ app.resizing
    /\ app.pointer_pos = Centre
    /\ IsSome(app.last_resize_draw)
    /\ Unwrap(app.last_resize_draw) < MIN_FRAME_INTERVAL_MS
    /\ <<app.width, app.height>> # app.resize_start_size

\* C37: before the first configure no frame has been submitted to the display
\* surface, and a draw call is a no-op: whatever the collaborators would
\* answer and whether or not a redraw is pending, it renders nothing and
\* leaves every field, the redraw flag included, as it was.
C37_NoFrameBeforeConfigure ==
    ~app.configured
       => /\ frame = NoFrame
          /\ ev.drawn = "none"
          /\ \A o \in DrawAnswers, pending \in BOOLEAN :
                LET s == [app EXCEPT !.needs_redraw = pending]
                IN  draw(s, o) = Rendered(s, "none", FALSE)

\* a frame callback was handled before the first configure
C37_Witness ==
    /\ ~app.configured
    /\ ev.kind = "Frame"
    /\ frame.path = "none"

\* C38: at opacity 1.0 a source pixel with alpha 255 is written with alpha
\* 255 both by a frame of the fast path and by a frame of the quality path.
C38_OpaqueStaysOpaque ==
    frame.opacity = OPACITY_MAX
       => \A p \in {q \in SourcePixels : q[4] = 255} :
             /\ frame.path = "fast" => render_pixel_fast(p, frame.opacity)[4] = 255
             /\ frame.path = "quality" => render_pixel_static(p, frame.opacity)[4] = 255

====
